---- MODULE Spec2Model ----
(***************************************************************************)
(* The archive pipeline of mwdh (src/src/archive): scan, compress in a     *)
(* worker pool, assemble.  Three modes: ZIP (one unit per file), parallel  *)
(* Zstandard (batches, memory accountant) and sequential Zstandard.        *)
(*                                                                         *)
(* Files are identified by their 0-based position in the scanner's list;   *)
(* the archive name of file i is written i.  Unit indices are 0-based as   *)
(* in the source (enumerate / batch_index).                                *)
(***************************************************************************)
EXTENDS Integers, Sequences, FiniteSets, TLC

\* ---------------------------------------------------------------- bounds
\* Files under the roots: MaxFiles in ZIP and sequential Zstandard runs,
\* MaxBatchedFiles in parallel Zstandard runs (where every subset of the
\* files may be a batch of its own).
MaxFiles == 3
MaxBatchedFiles == 2

\* The longest scanned list the batching loop is stepped through.
MaxBatchInputs == 3

\* options.threads: no worker, one worker (Zstandard: the sequential mode),
\* two concurrent workers.
ThreadCounts == {0, 1, 2}

\* options.threads of the runs whose batching loop is stepped through (the
\* parallel strategy never runs with one thread).
BatchThreadCounts == {0, 2, 3, 4}

\* ------------------------------------------------------ program constants
MiB == 1024 * 1024
MIN_BATCH_SIZE_BYTES == 64 * MiB
MAX_BATCH_SIZE_BYTES == 512 * MiB

\* Sizes (bytes) a scanned file may have, limits (MiB) the user may give and
\* lengths (bytes) a compressed frame may have.  A zstd frame is never empty.
FileSizes == {0, 64 * MiB}
MemoryLimitsMb == {0, 64}
CompressedSizes == {1, 48 * MiB}

\* A small world: files of 4 MiB under a limit of 1 MiB.
SmallLimitMb == 1
SmallFileSizes == {4 * MiB}
FileSizesUnder(limit_mb) ==
    IF limit_mb = SmallLimitMb THEN SmallFileSizes ELSE FileSizes

\* Sizes (bytes) std::fs::metadata may report to the batching loop.  Their
\* sums stay far below 2^64, the width of the loop's counters.
BatchFileSizes == {0, 1, 64 * MiB, 300 * MiB, 500 * MiB}

WorkerIds == UNION {0 .. (t - 1) : t \in ThreadCounts}
UnitIds == 0 .. (MaxFiles - 1)

NoUnit == [idx |-> -1, files |-> << >>, total_size |-> 0]
\* A result unit: loc is "Memory" (data = the frame), "Disk" (name = the
\* scratch file) or "none" (an error).
\* `granted` is the size of the request an approving reply answered.
NoResult == [ok |-> FALSE, idx |-> -1, loc |-> "none", size |-> 0,
             name |-> -1, data |-> << >>, granted |-> -1]
\* Err(e) carries no index.
ErrResult == NoResult
DiskResult(idx, name) ==
    [ok |-> TRUE, idx |-> idx, loc |-> "Disk", size |-> 0, name |-> name,
     data |-> << >>, granted |-> -1]
MemoryResult(idx, size, data) ==
    [ok |-> TRUE, idx |-> idx, loc |-> "Memory", size |-> size, name |-> -1,
     data |-> data, granted |-> -1]

\* A reply channel (bounded(1), one per request): empty, holding the
\* accountant's answer to a request of `size` bytes, or dropped by the
\* requester.
NoReply == [state |-> "empty", ok |-> FALSE, size |-> 0]
Reply(ok, size) == [state |-> "full", ok |-> ok, size |-> size]
Dropped == [state |-> "dropped", ok |-> FALSE, size |-> 0]
Idle == -1

VARIABLES
    format,          \* options.compression_format: "zip" | "zstd"
    threads,         \* options.threads
    memory_limit_mb, \* options.memory_limit_mb
    nfiles,          \* number of regular files under the roots
    mpc,             \* position of the pipeline function
    ret,             \* its return value: "none" | "ok" | "err"
    all_files,       \* the scanner's list
    events,          \* ProgressMessages sent by the pipeline thread, in order
    wevents,         \* ProgressMessages sent by each worker, in order
    work_q,          \* work channel
    work_tx_open,    \* work_tx not yet dropped
    result_q,        \* result channel
    result_tx_main,  \* the pipeline's own result_tx not yet dropped
    result_rx_alive, \* result_rx not yet dropped
    mem_q,           \* accountant request channel
    mem_tx_main,     \* the pipeline's own mem_tx not yet dropped
    replies,         \* reply channel of the request of each batch
    wpc,             \* position of each worker
    wunit,           \* the unit a worker holds
    wres,            \* the result a worker is about to send
    dispatched,      \* history: the units sent to the work channel
    received,        \* history: how often each unit was received
    sent,            \* history: how often a result was sent for each unit
    apc,             \* position of the accountant thread
    current_usage,   \* its counter
    temp_created,    \* create_temp_dir succeeded in this run
    dir_exists,      \* the scratch directory exists
    scratch,         \* files of the scratch directory: [name, files, done]
    temp_zips,       \* ZIP collector: idx -> result or NoResult
    compressed_batches, \* Zstandard collector
    cursor,          \* position of the writing loop
    out_created,     \* the output file was created
    synced,          \* output_file.sync_all() has returned Ok
    output,          \* what was appended to the output file
    progress_rx_alive, \* the receiver of the progress channel still exists
    send_failed,     \* history: a progress send returned Err
    bpc,             \* position of the batching loop (BatchSpec)
    files_with_size, \* the sizes measured so far, one per file
    total_uncompressed_size,
    batch_threshold,
    current_batch,
    current_batch_size,
    batch_index,
    is_bukkit,       \* ArchiveOptions of the scanner (ScanSpec)
    include_overworld,
    include_nether,
    include_end,
    world_name,
    paths,           \* the roots handed to scan_files
    spc,             \* position of scan_files (ScanSpec)
    root_i,          \* index of the root scan_files is at
    stack,           \* the stack of collect_files_recursive
    curr,            \* the directory being iterated, and the names yielded
    tree,            \* history: every entry the file system has shown
    reads,           \* history: the directories read_dir was called on
    skipped,         \* history: the directories the loop skipped
    host_path,       \* ServerOptions.host_path, as a sequence of characters
    serve_format,    \* the CompressionFormat handed to handle
    served,          \* history: the requests handled and their responses
    subcommand,      \* the subcommand of the command line (CliSpec)
    arg_threads,     \* --threads, None when not given
    arg_compression_threads,
    arg_server_threads,
    any_dimension,   \* one of the include flags is set
    ncpus,           \* num_cpus::get()
    cli_out          \* what parse_args returned

vars == << format, threads, memory_limit_mb, nfiles, mpc, ret, all_files,
           events, wevents, work_q, work_tx_open, result_q, result_tx_main,
           result_rx_alive, mem_q, mem_tx_main, replies, wpc, wunit,
           wres, dispatched, received, sent, apc, current_usage,
           temp_created,
           dir_exists, scratch, temp_zips, compressed_batches, cursor,
           out_created, synced, output, progress_rx_alive, send_failed, bpc,
           files_with_size, total_uncompressed_size, batch_threshold,
           current_batch, current_batch_size, batch_index, is_bukkit,
           include_overworld, include_nether, include_end, world_name, paths,
           spc, root_i, stack, curr, tree, reads, skipped, host_path,
           serve_format, served, subcommand, arg_threads,
           arg_compression_threads, arg_server_threads, any_dimension, ncpus,
           cli_out >>

optVars == << format, threads, memory_limit_mb, nfiles >>
\* The locals of the batching loop of generate_zstd_parallel.  BatchSpec
\* steps through the loop; in Spec the loop is one step (DispatchBatches)
\* and these stay as they are.
batchVars == << bpc, files_with_size, total_uncompressed_size,
                batch_threshold, current_batch, current_batch_size,
                batch_index >>
\* The options and locals of scan_files and collect_files_recursive.
\* ScanSpec steps through the walk; in Spec the scan is ScanStart, ScanFile,
\* ScanEnd and ScanFail, and these stay as they are.
scanVars == << is_bukkit, include_overworld, include_nether, include_end,
               world_name, paths, spc, root_i, stack, curr, tree, reads,
               skipped >>
\* The state of the HTTP host (ServeSpec) and of the command line (CliSpec).
hostVars == << host_path, serve_format, served >>
cliVars == << subcommand, arg_threads, arg_compression_threads,
              arg_server_threads, any_dimension, ncpus, cli_out >>
fixedVars == << optVars, batchVars, scanVars, hostVars, cliVars >>
envVars == << fixedVars, progress_rx_alive, send_failed >>
chanVars == << work_q, work_tx_open, result_q, result_tx_main,
               result_rx_alive, mem_q, mem_tx_main, replies >>
workerVars == << wpc, wunit, wres, wevents >>
histVars == << dispatched, received, sent >>
acctVars == << apc, current_usage >>
fsVars == << temp_created, dir_exists, scratch >>
asmVars == << temp_zips, compressed_batches, cursor, out_created, synced,
             output >>

\* ------------------------------------------------------------- helpers
\* The progress channel.  `events` and `wevents` hold every send, delivered
\* or not: a send after the receiver is gone returns Err, which every
\* sender discards with `.ok()`.  The pipeline thread's sends are kept in order; a
\* worker's sends are kept in that worker's order, each stamped with the
\* number of events the pipeline thread had sent before it (`at`).  This is
\* the channel order up to the order between events of different workers.
Ev(e, w, f) == [ev |-> e, w |-> w, f |-> f]
WEv(e, w, f) == [ev |-> e, w |-> w, f |-> f, at |-> Len(events)]
WorkerSend(w, e) == wevents' = [wevents EXCEPT ![w] = Append(@, e)]

\* `tx.send(..).ok()`: the step's sends fail when the receiver is gone, and
\* the failure is discarded.
ProgressSend ==
    /\ UNCHANGED progress_rx_alive
    /\ send_failed' = (send_failed \/ (~progress_rx_alive
                                         /\ (events' # events \/ wevents' # wevents)))

global_memory_limit_bytes == memory_limit_mb * 1024 * 1024

\* Faulty variant: zero threads also select the sequential mode.
SequentialAtMostOne == format = "zstd" /\ threads <= 1
Sequential == format = "zstd" /\ threads = 1

Min(a, b) == IF a <= b THEN a ELSE b
Max(a, b) == IF a >= b THEN a ELSE b

RECURSIVE SumSeq(_)
SumSeq(s) == IF s = << >> THEN 0 ELSE Head(s) + SumSeq(Tail(s))

RECURSIVE Flatten(_)
Flatten(ss) == IF ss = << >> THEN << >> ELSE Head(ss) \o Flatten(Tail(ss))

\* The error return of the pipeline function: `?` drops the locals; the
\* cleanup guard, when armed, runs before the function has returned.
Abort ==
    /\ ret' = "err"
    /\ result_rx_alive' = FALSE
    /\ work_tx_open' = FALSE
    /\ result_tx_main' = FALSE
    /\ mem_tx_main' = FALSE
    /\ mpc' = IF temp_created THEN "cleanup" ELSE "returned"

\* No directory entry is being iterated.
NoDir == [zp |-> << >>, yielded |-> {}]

\* The scanner's options and locals where the walk is not stepped through.
ScanOff ==
    /\ is_bukkit = FALSE
    /\ include_overworld = TRUE
    /\ include_nether = TRUE
    /\ include_end = TRUE
    /\ world_name = "world"
    /\ paths = << >>
    /\ spc = "off"
    /\ root_i = 0
    /\ stack = << >>
    /\ curr = NoDir
    /\ tree = {}
    /\ reads = {}
    /\ skipped = {}

None == "None"

\* parse_args has not returned.
NoCliOut == [status |-> "none", archive_threads |-> -1, server_threads |-> -1]

\* The host and the command line where they are not stepped through.
HostOff ==
    /\ host_path = << >>
    /\ serve_format = "zstd"
    /\ served = << >>

CliOff ==
    /\ subcommand = "compress"
    /\ arg_threads = None
    /\ arg_compression_threads = None
    /\ arg_server_threads = None
    /\ any_dimension = TRUE
    /\ ncpus = 1
    /\ cli_out = NoCliOut

Init ==
    /\ format \in {"zip", "zstd"}
    /\ threads \in ThreadCounts
    /\ memory_limit_mb \in IF format = "zstd"
                            THEN MemoryLimitsMb \cup {SmallLimitMb} ELSE {0}
    /\ nfiles \in 0 .. (IF format = "zstd" /\ threads # 1
                       THEN MaxBatchedFiles ELSE MaxFiles)
    /\ mpc = "start"
    /\ ret = "none"
    /\ all_files = << >>
    /\ events = << >>
    /\ wevents = [w \in WorkerIds |-> << >>]
    /\ work_q = << >>
    /\ work_tx_open = TRUE
    /\ result_q = << >>
    /\ result_tx_main = TRUE
    /\ result_rx_alive = TRUE
    /\ mem_q = << >>
    /\ mem_tx_main = TRUE
    /\ replies = [i \in UnitIds |-> NoReply]
    /\ wpc = [w \in WorkerIds |-> "none"]
    /\ wunit = [w \in WorkerIds |-> NoUnit]
    /\ wres = [w \in WorkerIds |-> NoResult]
    /\ dispatched = << >>
    /\ received = [i \in UnitIds |-> 0]
    /\ sent = [i \in UnitIds |-> 0]
    /\ apc = "none"
    /\ current_usage = 0
    /\ temp_created = FALSE
    /\ dir_exists = FALSE
    /\ scratch = {}
    /\ temp_zips = [i \in UnitIds |-> NoResult]
    /\ compressed_batches = << >>
    /\ cursor = 0
    /\ out_created = FALSE
    /\ synced = FALSE
    /\ output = << >>
    /\ progress_rx_alive = TRUE
    /\ send_failed = FALSE
    /\ bpc = "off"
    /\ files_with_size = << >>
    /\ total_uncompressed_size = 0
    /\ batch_threshold = 0
    /\ current_batch = << >>
    /\ current_batch_size = 0
    /\ batch_index = 0
    /\ ScanOff
    /\ HostOff
    /\ CliOff

\* --------------------------------------------------------------- scanner
\* scan_files: StartScanning, one FileFound per file, StartCompression.
ScanStart ==
    /\ mpc = "start"
    /\ events' = Append(events, Ev("StartScanning", -1, -1))
    /\ mpc' = "scan"
    /\ UNCHANGED << fixedVars, histVars, ret, all_files, chanVars, workerVars, acctVars,
                    fsVars, asmVars >>
    /\ ProgressSend

ScanFile ==
    /\ mpc = "scan"
    /\ Len(all_files) < nfiles
    /\ all_files' = Append(all_files, Len(all_files))
    /\ events' = Append(events, Ev("FileFound", -1, Len(all_files)))
    /\ UNCHANGED << fixedVars, histVars, mpc, ret, chanVars, workerVars, acctVars,
                    fsVars, asmVars >>
    /\ ProgressSend

\* Faulty variant: StartCompression is not sent.
ScanEndSilent ==
    /\ mpc = "scan"
    /\ Len(all_files) = nfiles
    /\ mpc' = IF Sequential THEN "seq_start" ELSE "mktemp"
    /\ UNCHANGED << envVars, histVars, ret, all_files, events, chanVars,
                    workerVars, acctVars, fsVars, asmVars >>

ScanEnd ==
    /\ mpc = "scan"
    /\ Len(all_files) = nfiles
    /\ events' = Append(events, Ev("StartCompression", -1, Len(all_files)))
    /\ mpc' = IF Sequential THEN "seq_start" ELSE "mktemp"
    /\ UNCHANGED << fixedVars, histVars, ret, all_files, chanVars, workerVars, acctVars,
                    fsVars, asmVars >>
    /\ ProgressSend

\* Faulty variant: the total is announced before the error is returned.
ScanFailAnnounced ==
    /\ mpc = "scan"
    /\ Abort
    /\ events' = Append(events, Ev("StartCompression", -1, Len(all_files)))
    /\ UNCHANGED << fixedVars, histVars, all_files, work_q, result_q, mem_q,
                    replies, workerVars, acctVars, fsVars, asmVars >>
    /\ ProgressSend

ScanFail ==
    /\ mpc = "scan"
    /\ Abort
    /\ UNCHANGED << envVars, histVars, all_files, events, work_q, result_q, mem_q,
                    replies, workerVars, acctVars, fsVars, asmVars >>

\* ------------------------------------------------- create_temp_dir / guard
CreateTempDir ==
    /\ mpc = "mktemp"
    /\ temp_created' = TRUE
    /\ dir_exists' = TRUE
    /\ mpc' = "spawn"
    /\ UNCHANGED << envVars, histVars, ret, all_files, events, chanVars, workerVars,
                    acctVars, scratch, asmVars >>

CreateTempDirFail ==
    /\ mpc = "mktemp"
    /\ Abort
    /\ UNCHANGED << envVars, histVars, all_files, events, work_q, result_q, mem_q,
                    replies, workerVars, acctVars, fsVars, asmVars >>

\* remove_dir_all is not atomic: it unlinks the entries it lists, then
\* removes the directory, which fails when an entry was created meanwhile;
\* the guard ignores the failure.
CleanupUnlink ==
    /\ mpc = "cleanup"
    /\ scratch' = {}
    /\ mpc' = "rmdir"
    /\ UNCHANGED << envVars, histVars, ret, all_files, events, chanVars, workerVars,
                    acctVars, temp_created, dir_exists, asmVars >>

CleanupRmdir ==
    /\ mpc = "rmdir"
    /\ dir_exists' = IF scratch = {} THEN FALSE ELSE dir_exists
    /\ mpc' = "returned"
    /\ UNCHANGED << envVars, histVars, ret, all_files, events, chanVars, workerVars,
                    acctVars, temp_created, scratch, asmVars >>

\* ------------------------------------------------------ spawn and dispatch
WorkerStartPc == IF format = "zstd" THEN "idle_msg" ELSE "recv"

Spawn ==
    /\ mpc = "spawn"
    /\ wpc' = [w \in WorkerIds |-> IF w < threads THEN WorkerStartPc ELSE "none"]
    /\ apc' = IF format = "zstd" THEN "loop1" ELSE "none"
    /\ mpc' = "dispatch"
    /\ UNCHANGED << envVars, histVars, ret, all_files, events, chanVars, wunit, wres, wevents, current_usage, fsVars, asmVars >>

\* The dispatch loop and the drops after it, as one step: a send into an
\* unbounded channel is never blocked and changes nothing another thread
\* has already observed, so every interleaving of the loop with the workers
\* has the same outcome as one in which the sends come first.
ZipUnits(files) ==
    [i \in 1 .. Len(files) |->
        [idx |-> i - 1, files |-> << files[i] >>, total_size |-> 0]]

\* Faulty variant: result_tx is not dropped before the collect loop.
DispatchFilesKeepTx ==
    /\ mpc = "dispatch"
    /\ format = "zip"
    /\ work_q' = ZipUnits(all_files)
    /\ dispatched' = work_q'
    /\ work_tx_open' = FALSE
    /\ mpc' = "collect"
    /\ UNCHANGED << envVars, received, sent, ret, all_files, events, result_q,
                    result_tx_main, result_rx_alive, mem_q, mem_tx_main,
                    replies, workerVars, acctVars, fsVars, asmVars >>

DispatchFiles ==
    /\ mpc = "dispatch"
    /\ format = "zip"
    /\ work_q' = ZipUnits(all_files)
    /\ dispatched' = work_q'
    /\ work_tx_open' = FALSE
    /\ result_tx_main' = FALSE
    /\ mpc' = "collect"
    /\ UNCHANGED << envVars, received, sent, ret, all_files, events, result_q,
                    result_rx_alive, mem_q, mem_tx_main, replies,
                    workerVars, acctVars, fsVars, asmVars >>

\* num_threads is at least 1, so checked_div never yields None.
\* Faulty variant: the final min with max(total, 1) is left out.
BatchThresholdClampOnly(total, t) ==
    LET num_threads == Max(t, 1)
        target_size_per_thread == total \div num_threads
    IN  Min(Max(target_size_per_thread, MIN_BATCH_SIZE_BYTES),
            MAX_BATCH_SIZE_BYTES)
BatchThreshold(total, t) ==
    LET num_threads == Max(t, 1)
        target_size_per_thread == total \div num_threads
        clamped == Min(Max(target_size_per_thread, MIN_BATCH_SIZE_BYTES),
                       MAX_BATCH_SIZE_BYTES)
    IN  Min(clamped, Max(total, 1))

RECURSIVE MakeBatches(_, _, _, _, _, _, _)
MakeBatches(files, sizes, i, batch, batch_size, index, threshold) ==
    IF i > Len(files)
    THEN IF batch # << >>
         THEN << [idx |-> index, files |-> batch, total_size |-> batch_size] >>
         ELSE << >>
    ELSE LET b == Append(batch, files[i])
             sz == batch_size + sizes[i]
         IN  IF sz >= threshold /\ b # << >>
             THEN << [idx |-> index, files |-> b, total_size |-> sz] >>
                  \o MakeBatches(files, sizes, i + 1, << >>, 0, index + 1,
                                 threshold)
             ELSE MakeBatches(files, sizes, i + 1, b, sz, index, threshold)

Batches(files, sizes, t) ==
    MakeBatches(files, sizes, 1, << >>, 0, 0,
                BatchThreshold(SumSeq(sizes), t))

DispatchBatches ==
    /\ mpc = "dispatch"
    /\ format = "zstd"
    /\ \E sizes \in [1 .. Len(all_files) -> FileSizesUnder(memory_limit_mb)] :
           work_q' = Batches(all_files, sizes, threads)
    /\ dispatched' = work_q'
    /\ work_tx_open' = FALSE
    /\ result_tx_main' = FALSE
    /\ mem_tx_main' = FALSE
    /\ mpc' = "collect"
    /\ UNCHANGED << envVars, received, sent, ret, all_files, events, result_q,
                    result_rx_alive, mem_q, replies, workerVars,
                    acctVars, fsVars, asmVars >>

\* ------------------------------------------------------------- collector
\* `for result in result_rx` ends when the channel is empty and every sender
\* (the pipeline's, dropped after dispatch, and one per live worker) is gone.
\* Faulty variant: the collector does not wait for the workers' senders.
ResultsDisconnectedEarly == ~result_tx_main
ResultsDisconnected ==
    /\ ~result_tx_main
    /\ \A w \in WorkerIds : wpc[w] \in {"none", "exit"}

CollectOk ==
    /\ mpc = "collect"
    /\ result_q # << >>
    /\ Head(result_q).ok
    /\ result_q' = Tail(result_q)
    /\ IF format = "zip"
       THEN /\ temp_zips' = [temp_zips EXCEPT ![Head(result_q).idx] = Head(result_q)]
            /\ UNCHANGED compressed_batches
       ELSE /\ compressed_batches' = Append(compressed_batches, Head(result_q))
            /\ UNCHANGED temp_zips
    /\ UNCHANGED << envVars, histVars, mpc, ret, all_files, events, work_q,
                    work_tx_open, result_tx_main, result_rx_alive, mem_q,
                    mem_tx_main, replies, workerVars, acctVars,
                    fsVars, cursor, out_created, synced, output >>

\* Faulty variant: a failing result is dropped and the collector goes on.
CollectErrSkip ==
    /\ mpc = "collect"
    /\ result_q # << >>
    /\ ~Head(result_q).ok
    /\ result_q' = Tail(result_q)
    /\ UNCHANGED << envVars, histVars, mpc, ret, all_files, events, work_q,
                    work_tx_open, result_tx_main, result_rx_alive, mem_q,
                    mem_tx_main, replies, workerVars, acctVars, fsVars,
                    asmVars >>

\* `result?` on an Err: the function returns it.
CollectErr ==
    /\ mpc = "collect"
    /\ result_q # << >>
    /\ ~Head(result_q).ok
    /\ result_q' = Tail(result_q)
    /\ Abort
    /\ UNCHANGED << envVars, histVars, all_files, events, work_q, mem_q, replies, workerVars, acctVars, fsVars, asmVars >>

RECURSIVE InsertByIdx(_, _)
InsertByIdx(sorted, x) ==
    IF sorted = << >> THEN << x >>
    ELSE IF x.idx < Head(sorted).idx THEN << x >> \o sorted
    ELSE << Head(sorted) >> \o InsertByIdx(Tail(sorted), x)

\* Faulty variant: the batches stay in arrival order.
SortByIdxArrival(s) == s
RECURSIVE SortByIdx(_)
SortByIdx(s) ==
    IF s = << >> THEN << >>
    ELSE InsertByIdx(SortByIdx(SubSeq(s, 1, Len(s) - 1)), s[Len(s)])

CollectEnd ==
    /\ mpc = "collect"
    /\ result_q = << >>
    /\ ResultsDisconnected
    /\ compressed_batches' = SortByIdx(compressed_batches)
    /\ mpc' = "join"
    /\ UNCHANGED << envVars, histVars, ret, all_files, events, chanVars, workerVars,
                    acctVars, fsVars, temp_zips, cursor, out_created, synced,
                    output >>

\* worker.join() for every worker, then (Zstandard) the accountant.
\* Faulty variant: the joins are left out.
JoinedNoWait == TRUE
Joined ==
    /\ \A w \in WorkerIds : wpc[w] \in {"none", "exit"}
    /\ apc \in {"none", "done"}

JoinAll ==
    /\ mpc = "join"
    /\ Joined
    /\ mpc' = "start_writing"
    /\ UNCHANGED << envVars, histVars, ret, all_files, events, chanVars, workerVars,
                    acctVars, fsVars, asmVars >>

\* ------------------------------------------------------------- assembler
\* StartWriting(k): k = all_files.len() (ZIP), compressed_batches.len()
\* (parallel Zstandard).
WriteCount ==
    IF format = "zip" THEN Len(all_files) ELSE Len(compressed_batches)

\* The payload of StartWriting: all_files.len() (ZIP) or
\* compressed_batches.len() (Zstandard).
\* Faulty variant: the file count in both formats.
WritingTotalFiles == Len(all_files)
WritingTotal ==
    IF format = "zip" THEN Len(all_files) ELSE Len(compressed_batches)

StartWriting ==
    /\ mpc = "start_writing"
    /\ events' = Append(events, Ev("StartWriting", -1, WritingTotal))
    /\ mpc' = "create_out"
    /\ UNCHANGED << fixedVars, histVars, ret, all_files, chanVars, workerVars, acctVars,
                    fsVars, asmVars >>
    /\ ProgressSend

CreateOutput ==
    /\ mpc = "create_out"
    /\ out_created' = TRUE
    /\ synced' = FALSE
    /\ output' = << >>
    /\ mpc' = "write"
    /\ UNCHANGED << envVars, histVars, ret, all_files, events, chanVars, workerVars,
                    acctVars, fsVars, temp_zips, compressed_batches, cursor >>

\* The scratch file a path names, as a set (empty when it does not exist).
ScratchAt(name) == {f \in scratch : f.name = name}

\* The unit the writing loop is at, and the label of its WritingFile event.
UnitToWrite ==
    IF format = "zip" THEN temp_zips[cursor] ELSE compressed_batches[cursor + 1]

WriteLabel ==
    IF format = "zip" THEN all_files[cursor + 1] ELSE UnitToWrite.idx

\* ZIP: a None slot is "Missing temp ZIP", returned before WritingFile.
WriteAnnounce ==
    /\ mpc = "write"
    /\ cursor < WriteCount
    /\ UnitToWrite.ok
    /\ events' = Append(events, Ev("WritingFile", -1, WriteLabel))
    /\ mpc' = "copy"
    /\ UNCHANGED << fixedVars, histVars, ret, all_files, chanVars, workerVars, acctVars,
                    fsVars, asmVars >>
    /\ ProgressSend

WriteMissing ==
    /\ mpc = "write"
    /\ cursor < WriteCount
    /\ ~UnitToWrite.ok
    /\ Abort
    /\ UNCHANGED << envVars, histVars, all_files, events, work_q, result_q, mem_q,
                    replies, workerVars, acctVars, fsVars, asmVars >>

\* compress_batch_to_zstd_frame writes header, content and padding of each
\* file and finishes the encoder: a batch frame holds no end-of-archive
\* blocks.
\* Faulty variant: the worker finishes a tar builder in every batch.
BatchFrameEofWritten == TRUE
BatchFrameEof == FALSE

\* raw_copy_file of entry 0 of the scratch zip / write_all of a Memory frame
\* / io::copy of a Disk frame.
WriteCopy ==
    /\ mpc = "copy"
    /\ LET u == UnitToWrite IN
       IF u.loc = "Memory"
       THEN output' = Append(output, [kind |-> "frame", idx |-> u.idx,
                                      files |-> u.data, eof |-> BatchFrameEof])
       ELSE \E f \in ScratchAt(u.name) :
              output' = Append(output,
                  [kind |-> IF format = "zip" THEN "entry" ELSE "frame",
                   idx |-> u.idx, files |-> f.files,
                   eof |-> IF format = "zip" THEN FALSE ELSE BatchFrameEof])
    /\ cursor' = cursor + 1
    /\ mpc' = "write"
    /\ UNCHANGED << envVars, histVars, ret, all_files, events, chanVars, workerVars,
                    acctVars, fsVars, temp_zips, compressed_batches,
                    out_created, synced >>

\* ZIP: final_zip.finish(), no sync.  Zstandard: the trailer frame (1024
\* zero bytes, the end-of-archive blocks), then sync_all.
\* Faulty variant: sync_all is not called.
FinishUnsynced ==
    /\ mpc = "write"
    /\ cursor = WriteCount
    /\ output' = IF format = "zip" THEN output
                 ELSE Append(output, [kind |-> "trailer", idx |-> -1,
                                      files |-> << >>, eof |-> TRUE])
    /\ mpc' = "complete"
    /\ UNCHANGED << envVars, histVars, ret, all_files, events, chanVars, workerVars,
                    acctVars, fsVars, temp_zips, compressed_batches, cursor,
                    out_created, synced >>

Finish ==
    /\ mpc = "write"
    /\ cursor = WriteCount
    /\ output' = IF format = "zip" THEN output
                 ELSE Append(output, [kind |-> "trailer", idx |-> -1,
                                      files |-> << >>, eof |-> TRUE])
    /\ synced' = (format = "zstd")
    /\ mpc' = "complete"
    /\ UNCHANGED << envVars, histVars, ret, all_files, events, chanVars, workerVars,
                    acctVars, fsVars, temp_zips, compressed_batches, cursor,
                    out_created >>

\* A failing File::create / open / copy / finish / metadata of the writing
\* phase returns the error.
AssembleFail ==
    /\ mpc \in {"create_out", "copy", "complete"}
    /\ Abort
    /\ UNCHANGED << envVars, histVars, all_files, events, work_q, result_q, mem_q,
                    replies, workerVars, acctVars, fsVars, asmVars >>

Complete ==
    /\ mpc = "complete"
    /\ events' = Append(events, Ev("Complete", -1, -1))
    /\ ret' = "ok"
    /\ mpc' = IF temp_created THEN "cleanup" ELSE "returned"
    /\ UNCHANGED << fixedVars, histVars, all_files, chanVars, workerVars, acctVars,
                    fsVars, asmVars >>
    /\ ProgressSend

\* ------------------------------------------------- sequential Zstandard
SeqStartWriting ==
    /\ mpc = "seq_start"
    /\ events' = Append(events, Ev("StartWriting", -1, Len(all_files)))
    /\ mpc' = "seq_create"
    /\ UNCHANGED << fixedVars, histVars, ret, all_files, chanVars, workerVars, acctVars,
                    fsVars, asmVars >>
    /\ ProgressSend

\* File::create and the encoder: one stream, modelled as one frame.
SeqCreate ==
    /\ mpc = "seq_create"
    /\ out_created' = TRUE
    /\ synced' = FALSE
    /\ output' = << [kind |-> "frame", idx |-> 0, files |-> << >>,
                     eof |-> FALSE] >>
    /\ mpc' = "seq_file"
    /\ UNCHANGED << envVars, histVars, ret, all_files, events, chanVars, workerVars,
                    acctVars, fsVars, temp_zips, compressed_batches, cursor >>

SeqFileStart ==
    /\ mpc = "seq_file"
    /\ cursor < Len(all_files)
    /\ events' = Append(events, Ev("Compressing", 0, all_files[cursor + 1]))
    /\ mpc' = "seq_append"
    /\ UNCHANGED << fixedVars, histVars, ret, all_files, chanVars, workerVars, acctVars,
                    fsVars, asmVars >>
    /\ ProgressSend

SeqFileAppend ==
    /\ mpc = "seq_append"
    /\ output' = [output EXCEPT ![1].files = Append(@, all_files[cursor + 1])]
    /\ events' = events \o << Ev("FileCompressed", 0, all_files[cursor + 1]),
                              Ev("WritingFile", -1, all_files[cursor + 1]) >>
    /\ cursor' = cursor + 1
    /\ mpc' = "seq_file"
    /\ UNCHANGED << fixedVars, histVars, ret, all_files, chanVars, workerVars, acctVars,
                    fsVars, temp_zips, compressed_batches, out_created, synced >>
    /\ ProgressSend

\* builder.finish() writes the end-of-archive blocks into the same stream.
SeqFinish ==
    /\ mpc = "seq_file"
    /\ cursor = Len(all_files)
    /\ output' = [output EXCEPT ![1].eof = TRUE]
    /\ mpc' = "complete"
    /\ UNCHANGED << envVars, histVars, ret, all_files, events, chanVars, workerVars,
                    acctVars, fsVars, temp_zips, compressed_batches, cursor,
                    out_created, synced >>

SeqFail ==
    /\ mpc \in {"seq_create", "seq_append"}
    /\ Abort
    /\ UNCHANGED << envVars, histVars, all_files, events, work_q, result_q, mem_q,
                    replies, workerVars, acctVars, fsVars, asmVars >>

MainNext ==
    \/ ScanStart \/ ScanFile \/ ScanEnd \/ ScanFail
    \/ CreateTempDir \/ CreateTempDirFail \/ CleanupUnlink \/ CleanupRmdir
    \/ Spawn \/ DispatchFiles \/ DispatchBatches
    \/ CollectOk \/ CollectErr \/ CollectEnd \/ JoinAll
    \/ StartWriting \/ CreateOutput \/ WriteAnnounce \/ WriteMissing
    \/ WriteCopy \/ Finish \/ AssembleFail \/ Complete
    \/ SeqStartWriting \/ SeqCreate \/ SeqFileStart \/ SeqFileAppend
    \/ SeqFinish \/ SeqFail

\* ---------------------------------------------------------------- workers
\* File::create(temp_dir.join(name)): fails when the directory is gone,
\* truncates an existing file.
CreateFile(name, files, done) ==
    scratch' = {f \in scratch : f.name # name}
               \cup {[name |-> name, files |-> files, done |-> done]}

\* file_<idx>.zip and batch_<idx>.zst: the scratch file of a unit is named
\* by the unit's index.
\* Faulty variant: the scratch file is named by the worker.
ScratchNameByWorker(idx, worker_id) == worker_id
ScratchName(idx, worker_id) == idx

\* while let Ok(unit) = work_rx.recv()
WRecv(w) ==
    /\ wpc[w] = "recv"
    /\ work_q # << >>
    /\ wunit' = [wunit EXCEPT ![w] = Head(work_q)]
    /\ work_q' = Tail(work_q)
    /\ wpc' = [wpc EXCEPT ![w] = IF format = "zip" THEN "announce"
                                 ELSE "compress_batch"]
    /\ received' = [received EXCEPT ![Head(work_q).idx] = @ + 1]
    /\ UNCHANGED << envVars, dispatched, sent, wevents, mpc, ret, all_files, events, work_tx_open,
                    result_q, result_tx_main, result_rx_alive, mem_q,
                    mem_tx_main, replies, wres, acctVars, fsVars,
                    asmVars >>

\* recv() fails once the channel is empty and work_tx was dropped.
WExit(w) ==
    /\ wpc[w] = "recv"
    /\ work_q = << >>
    /\ ~work_tx_open
    /\ wpc' = [wpc EXCEPT ![w] = "exit"]
    /\ UNCHANGED << envVars, histVars, wevents, mpc, ret, all_files, events, chanVars, wunit,
                    wres, acctVars, fsVars, asmVars >>

\* result_tx.send(..).is_err() => break
WSend(w) ==
    /\ wpc[w] = "send"
    /\ IF result_rx_alive
       THEN /\ result_q' = Append(result_q, wres[w])
            /\ wpc' = [wpc EXCEPT ![w] = "recv"]
       ELSE /\ UNCHANGED result_q
            /\ wpc' = [wpc EXCEPT ![w] = "exit"]
    /\ wunit' = [wunit EXCEPT ![w] = NoUnit]
    /\ wres' = [wres EXCEPT ![w] = NoResult]
    /\ sent' = [sent EXCEPT ![wunit[w].idx] = @ + 1]
    /\ UNCHANGED << envVars, dispatched, received, wevents, mpc, ret, all_files, events, work_q,
                    work_tx_open, result_tx_main, result_rx_alive, mem_q,
                    mem_tx_main, replies, acctVars, fsVars,
                    asmVars >>

\* ---- ZIP worker
\* Faulty variant: the worker leaves its loop when the progress send fails.
ZAnnounceChecked(w) ==
    /\ wpc[w] = "announce"
    /\ WorkerSend(w, WEv("Compressing", w, wunit[w].files[1]))
    /\ wpc' = [wpc EXCEPT ![w] = IF progress_rx_alive THEN "compress" ELSE "exit"]
    /\ UNCHANGED << fixedVars, histVars, mpc, ret, all_files, events, chanVars, wunit, wres, acctVars, fsVars, asmVars >>
    /\ ProgressSend

ZAnnounce(w) ==
    /\ wpc[w] = "announce"
    /\ WorkerSend(w, WEv("Compressing", w, wunit[w].files[1]))
    /\ wpc' = [wpc EXCEPT ![w] = "compress"]
    /\ UNCHANGED << fixedVars, histVars, mpc, ret, all_files, events, chanVars, wunit, wres, acctVars, fsVars, asmVars >>
    /\ ProgressSend

\* compress_single_file_to_zip: create the scratch zip, then open and copy
\* the input, which may fail.
ZCompress(w) ==
    /\ wpc[w] = "compress"
    /\ LET u == wunit[w]
           name == ScratchName(u.idx, w)
       IN  IF dir_exists
           THEN \E ok \in BOOLEAN :
                  /\ CreateFile(name, u.files, ok)
                  /\ wres' = [wres EXCEPT ![w] =
                        IF ok THEN DiskResult(u.idx, name)
                        ELSE ErrResult]
           ELSE /\ wres' = [wres EXCEPT ![w] = ErrResult]
                /\ UNCHANGED scratch
    /\ wpc' = [wpc EXCEPT ![w] = "compressed"]
    /\ UNCHANGED << envVars, histVars, wevents, mpc, ret, all_files, events, chanVars, wunit,
                    acctVars, temp_created, dir_exists, asmVars >>

\* Faulty variant: FileCompressed is sent only when the compression
\* succeeded.
ZCompressedOnSuccess(w) ==
    /\ wpc[w] = "compressed"
    /\ IF wres[w] = ErrResult
       THEN UNCHANGED wevents
       ELSE WorkerSend(w, WEv("FileCompressed", w, wunit[w].files[1]))
    /\ wpc' = [wpc EXCEPT ![w] = "send"]
    /\ UNCHANGED << fixedVars, histVars, mpc, ret, all_files, events, chanVars, wunit, wres, acctVars, fsVars, asmVars >>
    /\ ProgressSend

ZCompressed(w) ==
    /\ wpc[w] = "compressed"
    /\ WorkerSend(w, WEv("FileCompressed", w, wunit[w].files[1]))
    /\ wpc' = [wpc EXCEPT ![w] = "send"]
    /\ UNCHANGED << fixedVars, histVars, mpc, ret, all_files, events, chanVars, wunit, wres, acctVars, fsVars, asmVars >>
    /\ ProgressSend

\* ---- Zstandard worker
\* Faulty variant: the worker starts without the "Idle" message.
WIdleSilent(w) ==
    /\ wpc[w] = "idle_msg"
    /\ wpc' = [wpc EXCEPT ![w] = "recv"]
    /\ UNCHANGED << envVars, histVars, mpc, ret, all_files, events, wevents,
                    chanVars, wunit, wres, acctVars, fsVars, asmVars >>

WIdle(w) ==
    /\ wpc[w] = "idle_msg"
    /\ WorkerSend(w, WEv("Compressing", w, Idle))
    /\ wpc' = [wpc EXCEPT ![w] = "recv"]
    /\ UNCHANGED << fixedVars, histVars, mpc, ret, all_files, events, chanVars, wunit, wres, acctVars, fsVars, asmVars >>
    /\ ProgressSend

\* Faulty variant: every batch takes the memory path.
DirectToDiskNever(total_size, limit) == FALSE
\* Faulty variant: the size is taken in MiB and compared with the limit in
\* bytes.
DirectToDiskInMiB(total_size, limit) == total_size \div MiB > limit
DirectToDisk(total_size, limit) == total_size > limit

RequestSize(compressed_size, total_size) == compressed_size

\* The progress events of the first k files of a batch.
\* Faulty variant: FileCompressed is not sent.
RECURSIVE FileEventsNoDone(_, _, _)
FileEventsNoDone(w, files, k) ==
    IF k = 0 THEN << >>
    ELSE FileEventsNoDone(w, files, k - 1)
         \o << WEv("Compressing", w, files[k]) >>
RECURSIVE FileEvents(_, _, _)
FileEvents(w, files, k) ==
    IF k = 0 THEN << >>
    ELSE FileEvents(w, files, k - 1)
         \o << WEv("Compressing", w, files[k]),
               WEv("FileCompressed", w, files[k]) >>

\* compress_batch_to_zstd_frame up to the placement decision.  The sink is
\* the scratch file (direct to disk) or a memory buffer; every file is
\* announced, written into the encoder and reported; encoder.finish().
\* Direct to disk: the result is Disk.  Otherwise the frame is in the
\* buffer, of some compressed size, and RequestAllocation is sent.  The
\* loop touches only the worker's own state and the progress channel.
BCompress(w) ==
    /\ wpc[w] = "compress_batch"
    /\ LET u == wunit[w]
           name == ScratchName(u.idx, w)
           direct == DirectToDisk(u.total_size, global_memory_limit_bytes)
       IN  /\ direct => dir_exists
           /\ wevents' = [wevents EXCEPT ![w] =
                             @ \o FileEvents(w, u.files, Len(u.files))]
           /\ IF direct
              THEN /\ CreateFile(name, u.files, TRUE)
                   /\ wres' = [wres EXCEPT ![w] = DiskResult(u.idx, name)]
                   /\ wpc' = [wpc EXCEPT ![w] = "send"]
                   /\ UNCHANGED mem_q
              ELSE /\ \E compressed_size \in CompressedSizes :
                        /\ mem_q' = Append(mem_q,
                              [idx |-> u.idx,
                               size |-> RequestSize(compressed_size,
                                                    u.total_size)])
                        /\ wres' = [wres EXCEPT ![w] =
                              MemoryResult(u.idx, compressed_size, u.files)]
                   /\ wpc' = [wpc EXCEPT ![w] = "poll"]
                   /\ UNCHANGED scratch
    /\ UNCHANGED << fixedVars, histVars, mpc, ret, all_files, events, work_q,
                    work_tx_open, result_q, result_tx_main, result_rx_alive,
                    mem_tx_main, replies, wunit, acctVars,
                    temp_created, dir_exists, asmVars >>
    /\ ProgressSend

\* The same function returning an error: File::create of the sink fails
\* (the directory is gone), or metadata / set_path / open / copy of file k
\* fails after its Compressing was sent.
BCompressFail(w) ==
    /\ wpc[w] = "compress_batch"
    /\ LET u == wunit[w]
           name == ScratchName(u.idx, w)
           direct == DirectToDisk(u.total_size, global_memory_limit_bytes)
       IN  IF direct /\ ~dir_exists
           THEN UNCHANGED << wevents, scratch >>
           ELSE /\ \E k \in 1 .. Len(u.files) :
                     wevents' = [wevents EXCEPT ![w] =
                         @ \o FileEvents(w, u.files, k - 1)
                           \o << WEv("Compressing", w, u.files[k]) >>]
                /\ IF direct THEN CreateFile(name, << >>, FALSE)
                   ELSE UNCHANGED scratch
    /\ wres' = [wres EXCEPT ![w] = ErrResult]
    /\ wpc' = [wpc EXCEPT ![w] = "send"]
    /\ UNCHANGED << fixedVars, histVars, mpc, ret, all_files, events, chanVars, wunit,
                    acctVars, temp_created, dir_exists, asmVars >>
    /\ ProgressSend

\* response_rx.try_recv().unwrap_or(false)
\* Faulty variant: unwrap_or(true).
TryRecvReplyOrTrue(reply) == IF reply.state = "full" THEN reply.ok ELSE TRUE
TryRecvReply(reply) == IF reply.state = "full" THEN reply.ok ELSE FALSE

\* One poll of the reply channel, then the receiver is dropped.  Approved:
\* the buffer is the payload.  Otherwise fs::write to the scratch file.
BPoll(w) ==
    /\ wpc[w] = "poll"
    /\ LET u == wunit[w]
           name == ScratchName(u.idx, w)
       IN  IF TryRecvReply(replies[u.idx])
           THEN /\ wres' = [wres EXCEPT ![w].granted = replies[u.idx].size]
                /\ UNCHANGED scratch
           ELSE IF dir_exists
                THEN /\ CreateFile(name, wres[w].data, TRUE)
                     /\ wres' = [wres EXCEPT ![w] = DiskResult(u.idx, name)]
                ELSE /\ wres' = [wres EXCEPT ![w] = ErrResult]
                     /\ UNCHANGED scratch
    /\ replies' = [replies EXCEPT ![wunit[w].idx] = Dropped]
    /\ wpc' = [wpc EXCEPT ![w] = "send"]
    /\ UNCHANGED << envVars, histVars, wevents, mpc, ret, all_files, events, work_q,
                    work_tx_open, result_q, result_tx_main, result_rx_alive,
                    mem_q, mem_tx_main, wunit, acctVars,
                    temp_created, dir_exists, asmVars >>

\* One step of the thread of worker w.
WorkerStep(w) ==
    \/ WRecv(w) \/ WExit(w) \/ WSend(w)
    \/ ZAnnounce(w) \/ ZCompress(w) \/ ZCompressed(w)
    \/ WIdle(w) \/ BCompress(w) \/ BCompressFail(w) \/ BPoll(w)

WorkerNext == \E w \in WorkerIds : WorkerStep(w)

\* ------------------------------------------------------------- accountant
\* Faulty variant: the counter is left out of the comparison.
CanAllocateIgnoreUsage(usage, size, limit) == size <= limit
\* Faulty variant: every request is approved.
CanAllocateAlways(usage, size, limit) == TRUE
\* Faulty variant: the limit is compared with the counter before the request
\* is added.
CanAllocateBeforeAdding(usage, size, limit) == usage <= limit
CanAllocate(usage, size, limit) == usage + size <= limit

\* recv() of the accountant fails once the channel is empty and every mem_tx
\* (the pipeline's and one per live worker) was dropped.
\* Faulty variant: only the pipeline's own sender is looked at.
MemDisconnectedMainOnly == ~mem_tx_main
MemDisconnected ==
    /\ ~mem_tx_main
    /\ \A w \in WorkerIds : wpc[w] \in {"none", "exit"}

\* One RequestAllocation: decide, count, reply (the send fails silently
\* when the requester has dropped its receiver).
AcctReply(msg, can_allocate) ==
    replies' = IF replies[msg.idx].state = "dropped" THEN replies
               ELSE [replies EXCEPT ![msg.idx] = Reply(can_allocate, msg.size)]

AcctHandle ==
    /\ apc = "loop1"
    /\ mem_q # << >>
    /\ LET msg == Head(mem_q)
           can_allocate == CanAllocate(current_usage, msg.size,
                                       global_memory_limit_bytes)
       IN  /\ current_usage' = IF can_allocate THEN current_usage + msg.size
                               ELSE current_usage
           /\ AcctReply(msg, can_allocate)
    /\ mem_q' = Tail(mem_q)
    /\ UNCHANGED << envVars, histVars, mpc, ret, all_files, events, work_q,
                    work_tx_open, result_q, result_tx_main, result_rx_alive,
                    mem_tx_main, workerVars, apc, fsVars, asmVars >>

AcctLoop1End ==
    /\ apc = "loop1"
    /\ mem_q = << >>
    /\ MemDisconnected
    /\ apc' = "loop2"
    /\ UNCHANGED << envVars, histVars, mpc, ret, all_files, events, chanVars,
                    workerVars, current_usage, fsVars, asmVars >>

\* The second loop, with its own counter starting at 0.
AcctLoop2 ==
    /\ apc = "loop2"
    /\ IF mem_q # << >>
       THEN LET msg == Head(mem_q)
                can_allocate == CanAllocate(0, msg.size,
                                            global_memory_limit_bytes)
            IN  /\ current_usage' = IF can_allocate THEN msg.size ELSE 0
                /\ AcctReply(msg, can_allocate)
                /\ mem_q' = Tail(mem_q)
                /\ UNCHANGED apc
       ELSE /\ MemDisconnected
            /\ apc' = "done"
            /\ UNCHANGED << current_usage, mem_q, replies >>
    /\ UNCHANGED << envVars, histVars, mpc, ret, all_files, events, work_q,
                    work_tx_open, result_q, result_tx_main, result_rx_alive,
                    mem_tx_main, workerVars, fsVars, asmVars >>

AcctNext == AcctHandle \/ AcctLoop1End \/ AcctLoop2

\* ------------------------------------------------------ progress consumer
\* handle_progress owns the receiver; it goes away when the function returns
\* or panics, at any point of the run.
ConsumerDrop ==
    /\ progress_rx_alive
    /\ progress_rx_alive' = FALSE
    /\ UNCHANGED << fixedVars, send_failed, histVars, mpc, ret, all_files, events,
                    chanVars, workerVars, acctVars, fsVars, asmVars >>

\* Every progress sender is gone: the pipeline function, which owns tx, has
\* returned, and no worker holding a clone is alive.
ProgressDisconnected ==
    /\ mpc = "returned"
    /\ \A w \in WorkerIds : wpc[w] \in {"none", "exit"}

CompleteSent == \E p \in DOMAIN events : events[p].ev = "Complete"

\* handle_progress returns: its loop breaks at Complete, the last message
\* of the channel, and ends when recv fails, the channel being empty and
\* disconnected.  No arm of the loop blocks.
RenderEnd ==
    /\ progress_rx_alive
    /\ CompleteSent \/ ProgressDisconnected
    /\ progress_rx_alive' = FALSE
    /\ UNCHANGED << fixedVars, send_failed, histVars, mpc, ret, all_files, events,
                    chanVars, workerVars, acctVars, fsVars, asmVars >>

Next == MainNext \/ WorkerNext \/ AcctNext \/ ConsumerDrop \/ RenderEnd

Spec == Init /\ [][Next]_vars

\* The scheduler runs every spawned thread that can take a step: each
\* worker and the accountant.  Nothing is assumed of the pipeline thread.
FairSpec ==
    /\ Spec
    /\ \A w \in WorkerIds : WF_vars(WorkerStep(w))
    /\ WF_vars(AcctNext)

\* Every thread that can take a step is run: the pipeline function on its
\* blocking thread, each worker, the accountant and handle_progress.  Every
\* call of a step returns, so a thread stands still only at a recv or a
\* join.  Nothing is assumed of an early drop of the progress receiver.
LiveSpec ==
    /\ Spec
    /\ WF_vars(MainNext)
    /\ \A w \in WorkerIds : WF_vars(WorkerStep(w))
    /\ WF_vars(AcctNext)
    /\ WF_vars(RenderEnd)

\* ============================================================ properties
Range(s) == {s[i] : i \in DOMAIN s}

\* ------------------------------------------------------- batching loop
\* The batching of generate_zstd_parallel, stepped through statement by
\* statement.  It starts where the threads are spawned and nothing is
\* dispatched yet; the workers wait on the empty work channel meanwhile.
ScanEvents(n) ==
    << Ev("StartScanning", -1, -1) >>
    \o [i \in 1 .. n |-> Ev("FileFound", -1, i - 1)]
    \o << Ev("StartCompression", -1, n) >>

BatchInit ==
    /\ format = "zstd"
    /\ threads \in BatchThreadCounts
    /\ memory_limit_mb \in MemoryLimitsMb
    /\ nfiles \in 0 .. MaxBatchInputs
    /\ mpc = "dispatch"
    /\ ret = "none"
    /\ all_files = [i \in 1 .. nfiles |-> i - 1]
    /\ events = ScanEvents(nfiles)
    /\ wevents = [w \in WorkerIds |-> << >>]
    /\ work_q = << >>
    /\ work_tx_open = TRUE
    /\ result_q = << >>
    /\ result_tx_main = TRUE
    /\ result_rx_alive = TRUE
    /\ mem_q = << >>
    /\ mem_tx_main = TRUE
    /\ replies = [i \in UnitIds |-> NoReply]
    /\ wpc = [w \in WorkerIds |-> IF w < threads THEN WorkerStartPc ELSE "none"]
    /\ wunit = [w \in WorkerIds |-> NoUnit]
    /\ wres = [w \in WorkerIds |-> NoResult]
    /\ dispatched = << >>
    /\ received = [i \in UnitIds |-> 0]
    /\ sent = [i \in UnitIds |-> 0]
    /\ apc = "loop1"
    /\ current_usage = 0
    /\ temp_created = TRUE
    /\ dir_exists = TRUE
    /\ scratch = {}
    /\ temp_zips = [i \in UnitIds |-> NoResult]
    /\ compressed_batches = << >>
    /\ cursor = 0
    /\ out_created = FALSE
    /\ synced = FALSE
    /\ output = << >>
    /\ progress_rx_alive = TRUE
    /\ send_failed = FALSE
    /\ bpc = "measure"
    /\ files_with_size = << >>
    /\ total_uncompressed_size = 0
    /\ batch_threshold = 0
    /\ current_batch = << >>
    /\ current_batch_size = 0
    /\ batch_index = 0
    /\ ScanOff
    /\ HostOff
    /\ CliOff

\* What the batching loop leaves alone.
batchFrame ==
    << optVars, scanVars, hostVars, cliVars, progress_rx_alive, send_failed,
       ret, all_files, events, result_q, result_rx_alive, mem_q, replies, workerVars, received, sent,
       acctVars, fsVars, asmVars >>

\* The number of files the loop has taken from files_with_size.
BatchTaken ==
    Len(Flatten([i \in 1 .. Len(dispatched) |-> dispatched[i].files]))
        + Len(current_batch)

\* metadata(..).map(|m| m.len()).unwrap_or(0); total_uncompressed_size += size
BatchMeasure ==
    /\ bpc = "measure"
    /\ Len(files_with_size) < Len(all_files)
    /\ \E size \in BatchFileSizes :
           /\ files_with_size' = Append(files_with_size, size)
           /\ total_uncompressed_size' = total_uncompressed_size + size
    /\ UNCHANGED << batchFrame, mpc, work_q, dispatched, work_tx_open,
                    result_tx_main, mem_tx_main, bpc, batch_threshold,
                    current_batch, current_batch_size, batch_index >>

BatchLimits ==
    /\ bpc = "measure"
    /\ Len(files_with_size) = Len(all_files)
    /\ batch_threshold' = BatchThreshold(total_uncompressed_size, threads)
    /\ bpc' = "batch"
    /\ UNCHANGED << batchFrame, mpc, work_q, dispatched, work_tx_open,
                    result_tx_main, mem_tx_main, files_with_size,
                    total_uncompressed_size, current_batch,
                    current_batch_size, batch_index >>

\* One iteration of `for (file_info, size) in files_with_size`.
\* Faulty variant: the batch is closed when its size exceeds the threshold.
BatchPushExceeds ==
    /\ bpc = "batch"
    /\ BatchTaken < Len(all_files)
    /\ LET b == Append(current_batch, all_files[BatchTaken + 1])
           sz == current_batch_size + files_with_size[BatchTaken + 1]
       IN  IF sz > batch_threshold /\ b # << >>
           THEN /\ work_q' = Append(work_q, [idx |-> batch_index, files |-> b,
                                             total_size |-> sz])
                /\ dispatched' = Append(dispatched, [idx |-> batch_index,
                                             files |-> b, total_size |-> sz])
                /\ current_batch' = << >>
                /\ current_batch_size' = 0
                /\ batch_index' = batch_index + 1
           ELSE /\ current_batch' = b
                /\ current_batch_size' = sz
                /\ UNCHANGED << work_q, dispatched, batch_index >>
    /\ UNCHANGED << batchFrame, mpc, work_tx_open, result_tx_main, mem_tx_main,
                    bpc, files_with_size, total_uncompressed_size,
                    batch_threshold >>

BatchPush ==
    /\ bpc = "batch"
    /\ BatchTaken < Len(all_files)
    /\ LET b == Append(current_batch, all_files[BatchTaken + 1])
           sz == current_batch_size + files_with_size[BatchTaken + 1]
       IN  IF sz >= batch_threshold /\ b # << >>
           THEN /\ work_q' = Append(work_q, [idx |-> batch_index, files |-> b,
                                             total_size |-> sz])
                /\ dispatched' = Append(dispatched, [idx |-> batch_index,
                                             files |-> b, total_size |-> sz])
                /\ current_batch' = << >>
                /\ current_batch_size' = 0
                /\ batch_index' = batch_index + 1
           ELSE /\ current_batch' = b
                /\ current_batch_size' = sz
                /\ UNCHANGED << work_q, dispatched, batch_index >>
    /\ UNCHANGED << batchFrame, mpc, work_tx_open, result_tx_main, mem_tx_main,
                    bpc, files_with_size, total_uncompressed_size,
                    batch_threshold >>

\* "Send remaining files", then the three drops.
BatchRest ==
    /\ bpc = "batch"
    /\ BatchTaken = Len(all_files)
    /\ IF current_batch # << >>
       THEN /\ work_q' = Append(work_q, [idx |-> batch_index,
                                         files |-> current_batch,
                                         total_size |-> current_batch_size])
            /\ dispatched' = Append(dispatched, [idx |-> batch_index,
                                         files |-> current_batch,
                                         total_size |-> current_batch_size])
       ELSE UNCHANGED << work_q, dispatched >>
    /\ work_tx_open' = FALSE
    /\ result_tx_main' = FALSE
    /\ mem_tx_main' = FALSE
    /\ mpc' = "collect"
    /\ bpc' = "done"
    /\ UNCHANGED << batchFrame, files_with_size, total_uncompressed_size,
                    batch_threshold, current_batch, current_batch_size,
                    batch_index >>

BatchNext == BatchMeasure \/ BatchLimits \/ BatchPush \/ BatchRest

BatchSpec == BatchInit /\ [][BatchNext]_vars

\* ------------------------------------------------------------- ScanSpec
\* scan_files and collect_files_recursive, stepped through entry by entry.
\* A path is the sequence of its components below world_path; the archive
\* name "a/b/c" is the sequence << "a", "b", "c" >>, and
\* format!("{}/{}", curr_zip_path, name) appends one component.
MaxEntries == 2

\* The names a directory entry can have: the five names the walk tests
\* for, and one it does not.
EntryNames == {"DIM1", "DIM-1", "regions", "entities", "poi", "a"}
WorldNames == {"world", "a"}

Last(s) == s[Len(s)]

\* paths_to_be_archived.
PathsToBeArchived ==
    IF is_bukkit
    THEN (IF include_overworld THEN << << "world" >> >> ELSE << >>)
         \o (IF include_nether THEN << << "world_nether" >> >> ELSE << >>)
         \o (IF include_end THEN << << "world_the_end" >> >> ELSE << >>)
    ELSE << << "world" >> >>

\* The src_path of the entry with archive name zp.
SrcPath(zp) == << "world_path" >> \o zp

FileToCompress(zp) == [src_path |-> SrcPath(zp), file_name |-> zp]

\* Faulty variant: the Overworld test does not look at the parent.
SkipDirAnyParent(name, parent) ==
    /\ ~is_bukkit
    /\ \/ ~include_end /\ name = "DIM1"
       \/ ~include_nether /\ name = "DIM-1"
       \/ /\ ~include_overworld
          /\ name \in {"regions", "entities", "poi"}

\* The `continue` tests of collect_files_recursive, made of a directory
\* entry `name` whose parent directory's file name is `parent`.
SkipDir(name, parent) ==
    /\ ~is_bukkit
    /\ \/ ~include_end /\ name = "DIM1"
       \/ ~include_nether /\ name = "DIM-1"
       \/ /\ ~include_overworld
          /\ parent = world_name
          /\ name \in {"regions", "entities", "poi"}

\* The entries read_dir has shown, the roots apart.
Entries == {e \in tree : Len(e.zp) > 1}

ScanInit ==
    /\ format = "zip"
    /\ threads = 1
    /\ memory_limit_mb = 0
    /\ nfiles = 0
    /\ mpc = "start"
    /\ ret = "none"
    /\ all_files = << >>
    /\ events = << >>
    /\ wevents = [w \in WorkerIds |-> << >>]
    /\ work_q = << >>
    /\ work_tx_open = TRUE
    /\ result_q = << >>
    /\ result_tx_main = TRUE
    /\ result_rx_alive = TRUE
    /\ mem_q = << >>
    /\ mem_tx_main = TRUE
    /\ replies = [i \in UnitIds |-> NoReply]
    /\ wpc = [w \in WorkerIds |-> "none"]
    /\ wunit = [w \in WorkerIds |-> NoUnit]
    /\ wres = [w \in WorkerIds |-> NoResult]
    /\ dispatched = << >>
    /\ received = [i \in UnitIds |-> 0]
    /\ sent = [i \in UnitIds |-> 0]
    /\ apc = "none"
    /\ current_usage = 0
    /\ temp_created = FALSE
    /\ dir_exists = FALSE
    /\ scratch = {}
    /\ temp_zips = [i \in UnitIds |-> NoResult]
    /\ compressed_batches = << >>
    /\ cursor = 0
    /\ out_created = FALSE
    /\ synced = FALSE
    /\ output = << >>
    /\ progress_rx_alive = TRUE
    /\ send_failed = FALSE
    /\ bpc = "off"
    /\ files_with_size = << >>
    /\ total_uncompressed_size = 0
    /\ batch_threshold = 0
    /\ current_batch = << >>
    /\ current_batch_size = 0
    /\ batch_index = 0
    /\ is_bukkit \in BOOLEAN
    /\ include_overworld \in BOOLEAN
    /\ include_nether \in BOOLEAN
    /\ include_end \in BOOLEAN
    /\ world_name \in (IF is_bukkit THEN {"world"} ELSE WorldNames)
    /\ paths \in {PathsToBeArchived} \cup (IF is_bukkit THEN {} ELSE {<< << "DIM1" >> >>})
    /\ spc = "start"
    /\ root_i = 1
    /\ stack = << >>
    /\ curr = NoDir
    /\ tree = {}
    /\ reads = {}
    /\ skipped = {}
    /\ HostOff
    /\ CliOff

\* What the scan leaves alone.
scanFrame ==
    << optVars, batchVars, hostVars, cliVars, is_bukkit, include_overworld,
       include_nether, include_end, world_name, paths, progress_rx_alive, send_failed, mpc,
       ret, chanVars, workerVars, histVars, acctVars, fsVars, asmVars >>

\* tx.send(StartScanning).
SStart ==
    /\ spc = "start"
    /\ events' = Append(events, Ev("StartScanning", -1, -1))
    /\ spc' = "roots"
    /\ UNCHANGED << scanFrame, all_files, root_i, stack, curr, tree, reads,
                    skipped >>

\* One iteration of `for path in paths`, the root a regular file.
SRootFile ==
    /\ spc = "roots"
    /\ root_i <= Len(paths)
    /\ LET zp == paths[root_i] IN
        /\ all_files' = Append(all_files, FileToCompress(zp))
        /\ events' = Append(events, Ev("FileFound", -1, SrcPath(zp)))
        /\ tree' = tree \cup {[zp |-> zp, kind |-> "file"]}
    /\ root_i' = root_i + 1
    /\ UNCHANGED << scanFrame, spc, stack, curr, reads, skipped >>

\* One iteration of `for path in paths`, the root not a regular file:
\* collect_files_recursive starts with the root on its stack.
SRootDir ==
    /\ spc = "roots"
    /\ root_i <= Len(paths)
    /\ LET zp == paths[root_i] IN
        /\ stack' = << zp >>
        /\ tree' = tree \cup {[zp |-> zp, kind |-> "dir"]}
    /\ spc' = "walk"
    /\ UNCHANGED << scanFrame, all_files, events, root_i, curr, reads,
                    skipped >>

\* file_name() is None or fs::metadata fails: scan_files returns the error.
SRootFail ==
    /\ spc = "roots"
    /\ root_i <= Len(paths)
    /\ spc' = "failed"
    /\ UNCHANGED << scanFrame, all_files, events, root_i, stack, curr, tree,
                    reads, skipped >>

\* stack.pop() and read_dir.
SPop ==
    /\ spc = "walk"
    /\ stack # << >>
    /\ curr' = [zp |-> Last(stack), yielded |-> {}]
    /\ stack' = SubSeq(stack, 1, Len(stack) - 1)
    /\ reads' = reads \cup {Last(stack)}
    /\ spc' = "iter"
    /\ UNCHANGED << scanFrame, all_files, events, root_i, tree, skipped >>

\* read_dir fails.
SReadDirFail ==
    /\ spc = "walk"
    /\ stack # << >>
    /\ spc' = "failed"
    /\ UNCHANGED << scanFrame, all_files, events, root_i, stack, curr, tree,
                    reads, skipped >>

\* One iteration of `for entry in read_dir`, the entry a directory.
SEntryDir ==
    /\ spc = "iter"
    /\ Cardinality(Entries) < MaxEntries
    /\ \E name \in EntryNames \ curr.yielded :
        LET child == Append(curr.zp, name) IN
        /\ curr' = [curr EXCEPT !.yielded = @ \cup {name}]
        /\ tree' = tree \cup {[zp |-> child, kind |-> "dir"]}
        /\ IF SkipDir(name, Last(curr.zp))
           THEN /\ skipped' = skipped \cup {child}
                /\ UNCHANGED stack
           ELSE /\ stack' = Append(stack, child)
                /\ UNCHANGED skipped
    /\ UNCHANGED << scanFrame, all_files, events, spc, root_i, reads >>

\* Faulty variant: the file is listed without FileFound.
SEntryFileSilent ==
    /\ spc = "iter"
    /\ Cardinality(Entries) < MaxEntries
    /\ \E name \in EntryNames \ curr.yielded :
        LET child == Append(curr.zp, name) IN
        /\ curr' = [curr EXCEPT !.yielded = @ \cup {name}]
        /\ tree' = tree \cup {[zp |-> child, kind |-> "file"]}
        /\ all_files' = Append(all_files, FileToCompress(child))
    /\ UNCHANGED << scanFrame, events, spc, root_i, stack, reads, skipped >>

\* One iteration of `for entry in read_dir`, the entry a regular file.
SEntryFile ==
    /\ spc = "iter"
    /\ Cardinality(Entries) < MaxEntries
    /\ \E name \in EntryNames \ curr.yielded :
        LET child == Append(curr.zp, name) IN
        /\ curr' = [curr EXCEPT !.yielded = @ \cup {name}]
        /\ tree' = tree \cup {[zp |-> child, kind |-> "file"]}
        /\ all_files' = Append(all_files, FileToCompress(child))
        /\ events' = Append(events, Ev("FileFound", -1, SrcPath(child)))
    /\ UNCHANGED << scanFrame, spc, root_i, stack, reads, skipped >>

\* One iteration of `for entry in read_dir`, the entry neither a directory
\* nor a regular file (entry.metadata() does not follow a symbolic link).
SEntryOther ==
    /\ spc = "iter"
    /\ Cardinality(Entries) < MaxEntries
    /\ \E name \in EntryNames \ curr.yielded :
        LET child == Append(curr.zp, name) IN
        /\ curr' = [curr EXCEPT !.yielded = @ \cup {name}]
        /\ tree' = tree \cup {[zp |-> child, kind |-> "other"]}
    /\ UNCHANGED << scanFrame, all_files, events, spc, root_i, stack, reads,
                    skipped >>

\* `entry?` or entry.metadata() fails.
SEntryFail ==
    /\ spc = "iter"
    /\ spc' = "failed"
    /\ UNCHANGED << scanFrame, all_files, events, root_i, stack, curr, tree,
                    reads, skipped >>

\* The directory has no further entry.
SIterEnd ==
    /\ spc = "iter"
    /\ spc' = "walk"
    /\ curr' = NoDir
    /\ UNCHANGED << scanFrame, all_files, events, root_i, stack, tree, reads,
                    skipped >>

\* The stack is empty: collect_files_recursive returns Ok.
SWalkEnd ==
    /\ spc = "walk"
    /\ stack = << >>
    /\ spc' = "roots"
    /\ root_i' = root_i + 1
    /\ UNCHANGED << scanFrame, all_files, events, stack, curr, tree, reads,
                    skipped >>

\* tx.send(StartCompression(all_files.len())); Ok(all_files).
SFinish ==
    /\ spc = "roots"
    /\ root_i > Len(paths)
    /\ events' = Append(events, Ev("StartCompression", -1, Len(all_files)))
    /\ spc' = "done"
    /\ UNCHANGED << scanFrame, all_files, root_i, stack, curr, tree, reads,
                    skipped >>

ScanNext ==
    \/ SStart
    \/ SRootFile
    \/ SRootDir
    \/ SRootFail
    \/ SPop
    \/ SReadDirFail
    \/ SEntryDir
    \/ SEntryFile
    \/ SEntryOther
    \/ SEntryFail
    \/ SIterEnd
    \/ SWalkEnd
    \/ SFinish

ScanSpec == ScanInit /\ [][ScanNext]_vars



\* ------------------------------------------------------------ ServeSpec
\* The pipeline before it has run: the state in which the command line is
\* parsed, and in which `host --path-to-archive` serves.
PipelineIdle ==
    /\ format = "zstd"
    /\ threads = 1
    /\ memory_limit_mb = 0
    /\ nfiles = 0
    /\ mpc = "start"
    /\ ret = "none"
    /\ all_files = << >>
    /\ events = << >>
    /\ wevents = [w \in WorkerIds |-> << >>]
    /\ work_q = << >>
    /\ work_tx_open = TRUE
    /\ result_q = << >>
    /\ result_tx_main = TRUE
    /\ result_rx_alive = TRUE
    /\ mem_q = << >>
    /\ mem_tx_main = TRUE
    /\ replies = [i \in UnitIds |-> NoReply]
    /\ wpc = [w \in WorkerIds |-> "none"]
    /\ wunit = [w \in WorkerIds |-> NoUnit]
    /\ wres = [w \in WorkerIds |-> NoResult]
    /\ dispatched = << >>
    /\ received = [i \in UnitIds |-> 0]
    /\ sent = [i \in UnitIds |-> 0]
    /\ apc = "none"
    /\ current_usage = 0
    /\ temp_created = FALSE
    /\ dir_exists = FALSE
    /\ scratch = {}
    /\ temp_zips = [i \in UnitIds |-> NoResult]
    /\ compressed_batches = << >>
    /\ cursor = 0
    /\ out_created = FALSE
    /\ synced = FALSE
    /\ output = << >>
    /\ progress_rx_alive = TRUE
    /\ send_failed = FALSE
    /\ bpc = "off"
    /\ files_with_size = << >>
    /\ total_uncompressed_size = 0
    /\ batch_threshold = 0
    /\ current_batch = << >>
    /\ current_batch_size = 0
    /\ batch_index = 0
    /\ ScanOff

\* handle and get_archive_file_as_response.  A string is the sequence of
\* its characters, so that &path[1..] is Tail.
MaxRequests == 2

Slash == << "/" >>
Ping == << "p", "i", "n", "g" >>
World == << "w", "o", "r", "l", "d" >>
Star == << "*" >>

\* host_path: the default, the name of the liveness route, the empty
\* string, and a path of two segments.
HostPaths == {World, Ping, << >>, << "a", "/", "b" >>}

\* req.uri().path(): "/" followed by anything (origin form), "*"
\* (asterisk form, OPTIONS), and the empty string (authority form,
\* CONNECT).
RequestPaths ==
    {<< >>, Star, Slash, Slash \o Ping, Slash \o World,
     Slash \o World \o << "s" >>, Slash \o << "a", "/", "b" >>,
     Slash \o Ping \o Slash}

\* The lengths of the archive file.
ArchiveLens == {0, 1024}

\* What File::open and file.metadata() do.
OpenOutcomes == {"ok", "open_err", "metadata_err"}

\* CompressionFormat::get_mime_type.
MimeType(fmt) == IF fmt = "zip" THEN "application/zip" ELSE "application/zstd"

\* The file name of the archive: download_file_name with the extension of
\* the format.
ArchiveFileName(fmt) == IF fmt = "zip" THEN "world.zip" ELSE "world.tar.zst"

\* A response: the status code, the body, and the headers the handler sets
\* (an absent header is the empty sequence).
\* Response::new(body): 200 unless status_mut() is assigned.
PlainResponse(status, body) ==
    [status |-> status, body |-> body, content_type |-> << >>,
     disposition |-> << >>, content_length |-> << >>]

\* The handler did not return a response: it panicked, or it returned Err
\* and the connection was closed.  The status is 0.
NoResponse(why) ==
    [status |-> 0, body |-> why, content_type |-> << >>,
     disposition |-> << >>, content_length |-> << >>]

\* get_archive_file_as_response.
ArchiveResponse(fmt, open, len) ==
    CASE open = "ok" ->
            [status |-> 200, body |-> "archive",
             content_type |-> << MimeType(fmt) >>,
             disposition |-> << "attachment", ArchiveFileName(fmt) >>,
             content_length |-> << len >>]
      [] open = "metadata_err" -> NoResponse("err")
      [] OTHER -> PlainResponse(500, "Failed to serve archive file")

\* handle: `match path { "/ping" => .., _ => if &path[1..] == serve_on_path
\* .. }`.  The slice panics when the path is empty.
Handle(path, serve_on_path, fmt, open, len) ==
    IF path = Slash \o Ping THEN PlainResponse(200, "Pong!")
    ELSE IF Len(path) = 0 THEN NoResponse("panic")
    ELSE IF Tail(path) = serve_on_path THEN ArchiveResponse(fmt, open, len)
    ELSE PlainResponse(404, "Not Found")

ServeInit ==
    /\ PipelineIdle
    /\ CliOff
    /\ host_path \in HostPaths
    /\ serve_format \in {"zip", "zstd"}
    /\ served = << >>

\* One request served by the service_fn of run_server.
Serve ==
    /\ Len(served) < MaxRequests
    /\ \E path \in RequestPaths, open \in OpenOutcomes, len \in ArchiveLens :
        served' = Append(served,
            [path |-> path, open |-> open, len |-> len,
             response |-> Handle(path, host_path, serve_format, open, len)])
    /\ UNCHANGED << optVars, batchVars, scanVars, cliVars, host_path,
                    serve_format, progress_rx_alive, send_failed, mpc, ret,
                    all_files, events, chanVars, workerVars, histVars,
                    acctVars, fsVars, asmVars >>

ServeNext == Serve

ServeSpec == ServeInit /\ [][ServeNext]_vars


\* -------------------------------------------------------------- CliSpec
\* parse_args: the thread counts of ArchiveOptions and ServerOptions.
\* An argument is the string given on the command line, or None.
ArgValues == {"0", "1", "2", "x"}
CpuCounts == {1, 4}
Subcommands == {"compress", "host", "compress-host"}

\* str::parse::<usize>: the number, or -1 for Err.
ParseUsize(str) ==
    CASE str = "0" -> 0
      [] str = "1" -> 1
      [] str = "2" -> 2
      [] OTHER -> -1

\* matches.get_one::<String>("threads").  The argument has the default
\* value "0" where it is defined (compress, compress-host); `host` does not
\* define it, and get_one of an undefined id is None in a release build
\* and a panic in a build with debug assertions.
ThreadCountValues ==
    IF subcommand = "host" THEN {None, "panic"}
    ELSE {IF arg_threads = None THEN "0" ELSE arg_threads}

\* The match of parse_archive_args and parse_host_args, parse::<usize> and
\* the replacement of 0: the specific argument when given, else
\* thread_count, else "0".  -1 is the Err of parse.
Resolve(specific, thread_count, cpus) ==
    LET str == IF specific # None THEN specific
               ELSE IF thread_count # None THEN thread_count
               ELSE "0"
        n == ParseUsize(str)
    IN  IF n = 0 THEN cpus ELSE n

CliOut(status, a, h) == [status |-> status, archive_threads |-> a, server_threads |-> h]

\* parse_archive_args: Err without a dimension, Err when the count does
\* not parse, else the resolved count.
ArchiveThreads(tc) ==
    IF ~any_dimension THEN -1
    ELSE Resolve(arg_compression_threads, tc, ncpus)

HostThreads(tc) == Resolve(arg_server_threads, tc, ncpus)

CliInit ==
    /\ PipelineIdle
    /\ HostOff
    /\ subcommand \in Subcommands
    /\ arg_threads \in (IF subcommand = "host" THEN {None}
                        ELSE ArgValues \cup {None})
    /\ arg_compression_threads \in (IF subcommand = "host" THEN {None}
                                    ELSE ArgValues \cup {None})
    /\ arg_server_threads \in (IF subcommand = "compress" THEN {None}
                               ELSE ArgValues \cup {None})
    /\ any_dimension \in (IF subcommand = "host" THEN {TRUE} ELSE BOOLEAN)
    /\ ncpus \in CpuCounts
    /\ cli_out = NoCliOut

cliFrame ==
    << optVars, batchVars, scanVars, hostVars, subcommand, arg_threads,
       arg_compression_threads, arg_server_threads, any_dimension, ncpus,
       progress_rx_alive, send_failed, mpc, ret, all_files, events,
       chanVars, workerVars, histVars, acctVars, fsVars, asmVars >>

\* Some(("compress", matches)).
ParseCompress ==
    /\ cli_out = NoCliOut
    /\ subcommand = "compress"
    /\ \E tc \in ThreadCountValues :
        LET a == ArchiveThreads(tc) IN
        cli_out' = IF a = -1 THEN CliOut("err", -1, -1)
                   ELSE CliOut("ok", a, -1)
    /\ UNCHANGED cliFrame

\* Some(("host", matches)): parse_host_args, then the archive path, which
\* must be given.
ParseHost ==
    /\ cli_out = NoCliOut
    /\ subcommand = "host"
    /\ \E tc \in ThreadCountValues, path_to_archive \in BOOLEAN :
        LET h == HostThreads(tc) IN
        cli_out' = IF tc = "panic" THEN CliOut("panic", -1, -1)
                   ELSE IF h = -1 \/ ~path_to_archive
                   THEN CliOut("err", -1, -1)
                   ELSE CliOut("ok", -1, h)
    /\ UNCHANGED cliFrame

\* Some(("compress-host", matches)): parse_host_args, parse_archive_args,
\* then the archive path, which must not be given.
ParseCompressHost ==
    /\ cli_out = NoCliOut
    /\ subcommand = "compress-host"
    /\ \E tc \in ThreadCountValues, path_to_archive \in BOOLEAN :
        LET h == HostThreads(tc)
            a == ArchiveThreads(tc)
        IN  cli_out' = IF h = -1 \/ a = -1 \/ path_to_archive
                       THEN CliOut("err", -1, -1)
                       ELSE CliOut("ok", a, h)
    /\ UNCHANGED cliFrame

CliNext == ParseCompress \/ ParseHost \/ ParseCompressHost

CliSpec == CliInit /\ [][CliNext]_vars

Success == ret = "ok"

WorkersStopped == \A w \in WorkerIds : wpc[w] \in {"none", "exit"}

\* The entries / frames of the output file, without the trailer frame.
IsUnit(e) == e.kind # "trailer"
OutputUnits == SelectSeq(output, IsUnit)
OutputFiles == Flatten([i \in 1 .. Len(OutputUnits) |-> OutputUnits[i].files])

IsPrefix(s, t) == Len(s) <= Len(t) /\ s = SubSeq(t, 1, Len(s))

Count(s, x) == Cardinality({i \in DOMAIN s : s[i] = x})

\* The dispatched unit of an index.
UnitOf(idx) == dispatched[idx + 1]
DispatchedIds == {dispatched[i].idx : i \in DOMAIN dispatched}

\* Results a worker has produced and the assembler has not yet written.
WorkerResults == {wres[w] : w \in {v \in WorkerIds : wpc[v] = "send"}}
Unwritten ==
    WorkerResults \cup Range(result_q)
    \cup Range(SubSeq(compressed_batches, cursor + 1, Len(compressed_batches)))
Produced ==
    {r \in WorkerResults \cup Range(result_q) \cup Range(compressed_batches)
           \cup Range(temp_zips) : r.ok}

RECURSIVE SumSizes(_)
SumSizes(S) ==
    IF S = {} THEN 0
    ELSE LET r == CHOOSE x \in S : TRUE IN r.size + SumSizes(S \ {r})

\* Positions of an event kind among the pipeline thread's events, and the
\* events of a kind sent by the workers.
Pos(kind) == {p \in DOMAIN events : events[p].ev = kind}
WorkerEvents(kinds) ==
    UNION {{e \in Range(wevents[w]) : e.ev \in kinds} : w \in WorkerIds}
CompressionKinds == {"Compressing", "FileCompressed"}

\* ---------------------------------------------------------------- C1
\* C1: the assembler appends result units strictly in ascending index
\* order: ZIP entry i is the scratch zip produced for file i, Zstandard
\* frames are in batch_index order and each holds its batch's files, so the
\* files of the output are in the scanner's order whatever the order in
\* which the results arrived; a successful run writes exactly the units
\* that were dispatched, in dispatch order.
C1_AscendingIndexOrder ==
    /\ IsPrefix(OutputFiles, all_files)
    /\ ~Sequential =>
         /\ \A i, j \in DOMAIN OutputUnits :
                i < j => OutputUnits[i].idx < OutputUnits[j].idx
         /\ \A i \in DOMAIN OutputUnits :
                /\ OutputUnits[i].idx = i - 1
                /\ OutputUnits[i].files = UnitOf(i - 1).files
         /\ format = "zip" =>
                \A i \in DOMAIN OutputUnits :
                    OutputUnits[i].files = << all_files[i] >>
    /\ (Success /\ ~Sequential /\ threads >= 1) =>
         [i \in DOMAIN OutputUnits |-> OutputUnits[i].files]
             = [i \in DOMAIN dispatched |-> dispatched[i].files]

\* Two frames were written on a successful run in which worker 1 compressed
\* the first batch.
C1_Witness ==
    /\ Success
    /\ format = "zstd"
    /\ threads = 2
    /\ Len(OutputUnits) = 2
    /\ \E e \in Range(wevents[1]) :
           e.ev = "FileCompressed" /\ e.f = all_files[1]

C3_NoLossNoDuplication ==
    (Success /\ threads >= 1) =>
        \A f \in Range(all_files) \cup Range(OutputFiles) :
            Count(OutputFiles, f) = Count(all_files, f)

\* A successful ZIP run in which one worker compressed both files.
C3_Witness ==
    /\ Success
    /\ format = "zip"
    /\ Len(all_files) = 2
    /\ Len(OutputFiles) = 2
    /\ \E w \in WorkerIds :
           Cardinality({e \in Range(wevents[w]) : e.ev = "FileCompressed"}) = 2

\* ---------------------------------------------------------------- C4
\* C4: a result is Memory only if the accountant's approving reply for
\* exactly its payload size had arrived when the worker polled once right
\* after sending the request; after a denial, with no reply yet, or direct
\* to disk, the result is Disk (or an error).
C4_PollStep(w) ==
    (wpc[w] = "poll" /\ wpc'[w] = "send") =>
        LET reply == replies[wunit[w].idx] IN
        /\ wres'[w].loc = "Memory"
               <=> reply = Reply(TRUE, wres[w].size)
        /\ wres'[w].loc = "Memory" => wres'[w].size = wres[w].size
        /\ wres'[w].loc # "Memory" => wres'[w].loc \in {"Disk", "none"}

C4_MemoryOnlyIfApproved ==
    /\ [](\A r \in Produced :
             /\ r.loc = "Memory" => r.granted = r.size
             /\ r.loc \in {"Memory", "Disk"}
             /\ (format = "zstd" /\ UnitOf(r.idx).total_size
                                      > global_memory_limit_bytes)
                    => r.loc = "Disk")
    /\ [][\A w \in WorkerIds : C4_PollStep(w)]_vars

\* A Memory frame was written on a successful run in which another batch
\* was spilled to disk.
C4_Witness ==
    /\ Success
    /\ \E r \in Range(compressed_batches) : r.loc = "Memory"
    /\ \E r \in Range(compressed_batches) :
           /\ r.loc = "Disk"
           /\ UnitOf(r.idx).total_size <= global_memory_limit_bytes

\* ---------------------------------------------------------------- C5
\* C5: the payload sizes of the Memory results produced and not yet written
\* sum to at most L = memory_limit_mb * 1024 * 1024.
C5_MemoryBound ==
    SumSizes({r \in Unwritten : r.ok /\ r.loc = "Memory"})
        <= global_memory_limit_bytes

\* One Memory result is pending while the accountant's count has left no
\* room for the other batch, which was spilled.
C5_Witness ==
    /\ \E r \in Unwritten : r.ok /\ r.loc = "Memory" /\ r.size = 48 * MiB
    /\ \E r \in Unwritten :
           /\ r.ok
           /\ r.loc = "Disk"
           /\ replies[r.idx] = Dropped
    /\ current_usage = 48 * MiB

\* ---------------------------------------------------------------- C6
\* C6: a batch with total_size > L is compressed straight into its scratch
\* file, sends no RequestAllocation and yields a Disk result; a batch with
\* total_size <= L is compressed into a memory buffer first and asks the
\* accountant.
C6_DirectToDisk ==
    format = "zstd" =>
        /\ \A u \in Range(dispatched) :
             IF u.total_size > global_memory_limit_bytes
             THEN /\ replies[u.idx] = NoReply
                  /\ \A m \in Range(mem_q) : m.idx # u.idx
                  /\ \A w \in WorkerIds :
                         wunit[w] = u => wpc[w] # "poll"
                  /\ \A r \in Produced : r.idx = u.idx => r.loc = "Disk"
             ELSE /\ \A r \in Produced :
                         r.idx = u.idx => replies[u.idx] = Dropped
                  /\ \A w \in WorkerIds :
                         (wunit[w] = u /\ wpc[w] = "poll") =>
                             /\ wres[w].loc = "Memory"
                             /\ ScratchAt(ScratchName(u.idx, w)) = {}
                             /\ \/ \E m \in Range(mem_q) : m.idx = u.idx
                                \/ replies[u.idx].state = "full"

\* A Disk result of a batch larger than the limit is in the result channel
\* while a batch within the limit waits for its reply.
C6_Witness ==
    /\ \E r \in Range(result_q) :
           /\ r.ok
           /\ r.loc = "Disk"
           /\ UnitOf(r.idx).total_size > global_memory_limit_bytes
    /\ \E w \in WorkerIds :
           /\ wpc[w] = "poll"
           /\ wunit[w].total_size <= global_memory_limit_bytes

\* ---------------------------------------------------------------- C7
\* C7: once the scratch directory was created, it has been removed when the
\* pipeline function has returned and its workers have stopped, on success
\* and on error alike.
C7_ScratchRemoved ==
    (mpc = "returned" /\ temp_created /\ WorkersStopped) => ~dir_exists

\* ---------------------------------------------------------------- C8
\* C8: StartScanning precedes every FileFound, StartCompression precedes
\* every Compressing, StartWriting precedes every WritingFile, and
\* Complete, when sent, is the last message of the channel.
C8_EventOrder ==
    /\ \A p \in Pos("FileFound") : \E q \in Pos("StartScanning") : q < p
    /\ \A p \in Pos("Compressing") : \E q \in Pos("StartCompression") : q < p
    /\ \A e \in WorkerEvents({"Compressing"}) :
           \E q \in Pos("StartCompression") : q <= e.at
    /\ \A p \in Pos("WritingFile") : \E q \in Pos("StartWriting") : q < p
    /\ \A p \in Pos("Complete") :
           /\ p = Len(events)
           /\ \A e \in WorkerEvents({"Compressing", "FileCompressed"}) :
                  e.at < p

\* Complete was sent after two workers compressed and two units were
\* written.
C8_Witness ==
    /\ Pos("Complete") # {}
    /\ Cardinality(Pos("FileFound")) = 2
    /\ Cardinality(Pos("WritingFile")) = 2
    /\ \A w \in WorkerIds :
           \E e \in Range(wevents[w]) : e.ev = "FileCompressed"

\* ---------------------------------------------------------------- C9
\* C9: on a successful run with threads >= 1 the number of FileCompressed
\* events equals the number of files and Complete is sent exactly once; on
\* an error return Complete is never sent.
NumFileCompressed ==
    Cardinality(Pos("FileCompressed"))
    + Cardinality(WorkerEvents({"FileCompressed"}))

C9_EventCounts ==
    /\ Cardinality(Pos("Complete")) <= 1
    /\ (Success /\ threads >= 1) =>
           /\ NumFileCompressed = Len(all_files)
           /\ Cardinality(Pos("Complete")) = 1
    /\ ret = "err" => Pos("Complete") = {}

\* A successful parallel Zstandard run whose two files went into one batch.
C9_Witness ==
    /\ Success
    /\ format = "zstd"
    /\ threads = 2
    /\ Len(all_files) = 2
    /\ Len(dispatched) = 1
    /\ NumFileCompressed = 2

\* --------------------------------------------------------------- C10
NoCompressionAfterStartWriting ==
    \A q \in Pos("StartWriting") :
        /\ \A p \in Pos("Compressing") \cup Pos("FileCompressed") : p < q
        /\ \A e \in WorkerEvents(CompressionKinds) : e.at < q

ResultsReady(k) ==
    IF format = "zip"
    THEN Cardinality({i \in UnitIds : temp_zips[i].ok}) = k
    ELSE Len(compressed_batches) = k

WritingFilesFollow ==
    Success =>
        \A q \in Pos("StartWriting") :
            Cardinality({p \in Pos("WritingFile") : p > q}) = events[q].f

\* C10 (as stated): in every mode StartWriting(k) is sent only after all k
\* results are ready, no Compressing or FileCompressed follows it, and on a
\* successful run exactly k WritingFile events follow.
C10_WritingAfterCompression ==
    /\ NoCompressionAfterStartWriting
    /\ \A q \in Pos("StartWriting") :
           Sequential \/ ResultsReady(events[q].f)
    /\ WritingFilesFollow

\* C10 (amended): in ZIP and parallel Zstandard mode no Compressing or
\* FileCompressed follows StartWriting(k), and (Zstandard, or ZIP with
\* threads >= 1) all k results have been collected when it is sent; in
\* sequential mode StartWriting(n) is sent before any file is compressed,
\* so every Compressing and FileCompressed follows it; in every mode a
\* successful run has exactly k WritingFile events after StartWriting(k).
C10_WritingPhase ==
    /\ ~Sequential => NoCompressionAfterStartWriting
    /\ (~Sequential /\ (format = "zstd" \/ threads >= 1)) =>
           \A q \in Pos("StartWriting") : ResultsReady(events[q].f)
    /\ Sequential =>
           \A p \in Pos("Compressing") \cup Pos("FileCompressed") :
               \E q \in Pos("StartWriting") : q < p
    /\ Sequential => WorkerEvents(CompressionKinds) = {}
    /\ WritingFilesFollow

\* A successful sequential run of two files: both were compressed after
\* StartWriting(2).
C10_Witness ==
    /\ Success
    /\ Sequential
    /\ Cardinality(Pos("FileCompressed")) = 2
    /\ \E q \in Pos("StartWriting") :
           /\ events[q].f = 2
           /\ \A p \in Pos("FileCompressed") : q < p

\* --------------------------------------------------------------- C11
\* C11: the accountant handles the requests one at a time in arrival
\* order; a request of n bytes is answered true, and the counter becomes
\* current + n, exactly when current + n <= L, otherwise it is answered
\* false and the counter is unchanged; the approved sizes never sum to more
\* than L.
C11_HandleStep ==
    (apc = "loop1" /\ mem_q # << >> /\ mem_q' = Tail(mem_q)) =>
        LET msg == Head(mem_q)
            fits == current_usage + msg.size <= global_memory_limit_bytes
        IN  /\ current_usage' = IF fits THEN current_usage + msg.size
                                ELSE current_usage
            /\ replies[msg.idx].state = "empty" =>
                   replies'[msg.idx] = Reply(fits, msg.size)

C11_ArrivalOrder ==
    \/ mem_q' = mem_q
    \/ mem_q # << >> /\ mem_q' = Tail(mem_q)
    \/ Len(mem_q') = Len(mem_q) + 1 /\ SubSeq(mem_q', 1, Len(mem_q)) = mem_q

C11_Accountant ==
    /\ [](/\ current_usage <= global_memory_limit_bytes
          /\ SumSizes({replies[i] : i \in {j \in UnitIds :
                                     replies[j].state = "full" /\ replies[j].ok}})
                 <= current_usage)
    /\ [][C11_HandleStep /\ C11_ArrivalOrder]_vars

\* Two requests of 48 MiB under a limit of 64 MiB were both answered and
\* not yet polled: the first approved, the second denied.
C11_Witness ==
    /\ current_usage = 48 * MiB
    /\ \E i, j \in UnitIds :
           /\ replies[i] = Reply(TRUE, 48 * MiB)
           /\ replies[j] = Reply(FALSE, 48 * MiB)

\* --------------------------------------------------------------- C12
\* C12 (as stated): once work_tx is dropped, a worker terminates only after
\* every queued unit was processed; and in the parallel modes all workers
\* and the accountant have terminated when StartWriting is sent.
JoinedBeforeWriting ==
    (~Sequential /\ Pos("StartWriting") # {}) =>
        /\ WorkersStopped
        /\ apc \in {"none", "done"}

C12_DrainThenTerminate ==
    /\ \A w \in WorkerIds : wpc[w] = "exit" => work_q = << >>
    /\ JoinedBeforeWriting

\* C12 (amended): once work_tx is dropped every worker terminates, either
\* because the work queue is empty and closed (then every queued unit was
\* processed) or because its result send failed after the collector had
\* returned an error (then units may remain queued); in the parallel modes
\* all workers and the accountant have terminated when StartWriting is
\* sent, hence before Complete.
C12_Shutdown ==
    /\ [](\A w \in WorkerIds :
              wpc[w] = "exit" =>
                  \/ work_q = << >> /\ ~work_tx_open
                  \/ ~result_rx_alive /\ ret = "err")
    /\ []JoinedBeforeWriting
    /\ (~work_tx_open) ~> (WorkersStopped /\ apc \in {"none", "done"})

\* Both workers of a parallel Zstandard run compressed a batch and have
\* terminated, the accountant has terminated, and StartWriting was sent.
C12_Witness ==
    /\ format = "zstd"
    /\ threads = 2
    /\ Pos("StartWriting") # {}
    /\ \A w \in WorkerIds :
           /\ wpc[w] = "exit"
           /\ \E e \in Range(wevents[w]) : e.ev = "FileCompressed"
    /\ apc = "done"

\* --------------------------------------------------------------- C13
\* C13: while a worker's error result is on its way to the collector the
\* pipeline has sent neither StartWriting nor Complete and has not created
\* the output file; the step in which the collector receives the error
\* returns it; and after an error return the pipeline sends nothing and
\* writes nothing.
ErrPending ==
    \/ \E w \in WorkerIds : wpc[w] = "send" /\ ~wres[w].ok
    \/ \E r \in Range(result_q) : ~r.ok

NothingWritten ==
    /\ Pos("StartWriting") = {}
    /\ Pos("Complete") = {}
    /\ ~out_created
    /\ output = << >>

C13_FatalError ==
    /\ [](ErrPending => (ret # "ok" /\ NothingWritten))
    /\ []((ret = "err" /\ ~Sequential /\ Pos("StartWriting") = {})
              => NothingWritten)
    /\ [][(result_q # << >> /\ ~Head(result_q).ok
               /\ result_q' = Tail(result_q))
              => (ret' = "err" /\ mpc' \in {"cleanup", "returned"})]_vars
    /\ [][ret = "err" => (/\ ret' = "err"
                          /\ events' = events
                          /\ output' = output
                          /\ out_created' = out_created)]_vars

\* The collector had taken one good result when it received an error: the
\* run has returned the error with nothing written.
C13_Witness ==
    /\ mpc = "returned"
    /\ ret = "err"
    /\ temp_created
    /\ \E i \in UnitIds : temp_zips[i].ok
    /\ NothingWritten

\* --------------------------------------------------------------- C14
\* C14: once a failing result has aborted the collector, no worker takes a
\* further unit from the work queue; every worker stops after the unit it
\* was processing at the moment of the abort.
C14_NoUnitAfterAbort ==
    [][ret = "err" => received' = received]_vars

\* --------------------------------------------------------------- C15
\* A step whose progress send fails.
SendFails == ~progress_rx_alive /\ (events' # events \/ wevents' # wevents)

\* C15: the progress channel is fire-and-forget.  A producer whose send
\* fails because the consumer is gone ignores the failure: the step does not
\* make the pipeline return Err and does not end a worker; the consumer
\* going away changes nothing but the receiver itself.
C15_FireAndForget ==
    /\ [][SendFails => /\ (ret' = "err" => ret = "err")
                       /\ \A w \in WorkerIds : wpc'[w] = "exit" => wpc[w] = "exit"]_vars
    /\ [][progress_rx_alive' # progress_rx_alive =>
             UNCHANGED << fixedVars, histVars, mpc, ret, all_files, events,
                          chanVars, workerVars, acctVars, fsVars, asmVars >>]_vars

\* A run that succeeded although sends of the scanner, of a worker and of
\* the assembler had failed.
C15_Witness ==
    /\ Success
    /\ send_failed
    /\ Len(output) >= 2
    /\ \E w \in WorkerIds : wevents[w] # << >>

\* --------------------------------------------------------------- C16
\* The three events of file f in the sequential mode.
SeqTriple(f) ==
    << Ev("Compressing", 0, f), Ev("FileCompressed", 0, f),
       Ev("WritingFile", -1, f) >>
SeqTriples(k) == Flatten([i \in 1 .. k |-> SeqTriple(all_files[i])])

\* The events after StartWriting, Complete left out.
NotComplete(e) == e.ev # "Complete"
AfterStartWriting ==
    LET p == CHOOSE q \in Pos("StartWriting") : TRUE
    IN  SelectSeq(SubSeq(events, p + 1, Len(events)), NotComplete)

SeqPcs == {"seq_start", "seq_create", "seq_file", "seq_append"}

\* C16: with threads = 1 the Zstandard pipeline runs the sequential mode:
\* no worker, no scratch directory, no accountant, nothing dispatched; the
\* files are appended to the one stream in scanner order and each file's
\* Compressing, FileCompressed and WritingFile are sent together, in that
\* order.  With every other thread count it runs the parallel batch mode:
\* the scratch directory is created and the accountant spawned before
\* anything is dispatched or written.
C16_ModeSelection ==
    /\ Sequential =>
          /\ \A w \in WorkerIds : wpc[w] = "none" /\ wevents[w] = << >>
          /\ apc = "none" /\ mem_q = << >>
          /\ ~temp_created /\ ~dir_exists /\ scratch = {}
          /\ dispatched = << >> /\ work_q = << >> /\ result_q = << >>
          /\ Len(output) <= 1
          /\ output # << >> => output[1].files = SubSeq(all_files, 1, cursor)
          /\ Success => output = << [kind |-> "frame", idx |-> 0,
                                     files |-> all_files, eof |-> TRUE] >>
          /\ Pos("StartWriting") # {} =>
                \/ AfterStartWriting = SeqTriples(cursor)
                \/ /\ cursor < Len(all_files)
                   /\ AfterStartWriting = Append(SeqTriples(cursor),
                          Ev("Compressing", 0, all_files[cursor + 1]))
    /\ (format = "zstd" /\ threads # 1) =>
          /\ mpc \notin SeqPcs
          /\ (dispatched # << >> \/ out_created \/ Pos("StartWriting") # {}) =>
                temp_created /\ apc # "none"
          /\ \A i \in DOMAIN output : output[i].kind = "trailer" \/ ~output[i].eof

\* A sequential run that wrote two files into its stream.
C16_Witness ==
    /\ Sequential
    /\ Success
    /\ Len(all_files) >= 2
    /\ Len(AfterStartWriting) = 3 * Len(all_files)

\* --------------------------------------------------------------- C17
\* min(min(max(T div t, MIN), MAX), max(T, 1)).
ThresholdFormula(T, t) ==
    Min(Min(Max(T \div t, MIN_BATCH_SIZE_BYTES), MAX_BATCH_SIZE_BYTES),
        Max(T, 1))

ThresholdLaw(b, T, t) ==
    /\ b = ThresholdFormula(T, t)
    /\ 1 <= b /\ b <= MAX_BATCH_SIZE_BYTES
    /\ (1 <= T /\ T <= MIN_BATCH_SIZE_BYTES) => b = T

\* Totals around the two limits, for the thread counts from one on.
SampleTotals ==
    {0, 1, 2, MIN_BATCH_SIZE_BYTES - 1, MIN_BATCH_SIZE_BYTES,
     MIN_BATCH_SIZE_BYTES + 1, 2 * MIN_BATCH_SIZE_BYTES,
     MAX_BATCH_SIZE_BYTES - 1, MAX_BATCH_SIZE_BYTES,
     MAX_BATCH_SIZE_BYTES + 1, 3 * MAX_BATCH_SIZE_BYTES}
SampleThreads == 1 .. 4

\* C17: for every total uncompressed size T >= 0 and thread count t >= 1
\* the batch threshold is min(min(max(T div t, MIN), MAX), max(T, 1)); it is
\* at least 1 and at most MAX, and equals T whenever 1 <= T <= MIN.  This
\* holds of the threshold the loop has computed and of the computation
\* applied to totals around the limits.
C17_BatchThreshold ==
    /\ (bpc \in {"batch", "done"} /\ threads >= 1) =>
          ThresholdLaw(batch_threshold, total_uncompressed_size, threads)
    /\ \A T \in SampleTotals : \A t \in SampleThreads :
          ThresholdLaw(BatchThreshold(T, t), T, t)

\* Three threads and 900 MiB: the threshold is the share of one thread,
\* strictly between the limits.
C17_Witness ==
    /\ bpc = "done"
    /\ threads = 3
    /\ total_uncompressed_size = 900 * MiB
    /\ batch_threshold = 300 * MiB

\* --------------------------------------------------------------- C18
\* The measured size of file f (files are named by scan position).
SizeOf(f) == files_with_size[f + 1]
SizesOf(fs) == SumSeq([i \in 1 .. Len(fs) |-> SizeOf(fs[i])])
AllButLast(fs) == SubSeq(fs, 1, Len(fs) - 1)

\* C18: batching partitions the scanned list.  When the loop is done the
\* batches, concatenated in batch_index order, are the scanned list in
\* scanner order; the indices are 0, 1, 2, ... without gaps; no batch is
\* empty; every batch carries the sum of its files' sizes; a batch is closed
\* exactly at the first file at which its cumulative size reaches
\* batch_threshold (before its last file it was below, and every batch but
\* possibly the last has reached it); an empty list yields no batch.
C18_BatchPartition ==
    bpc = "done" =>
        /\ work_q = dispatched
        /\ Flatten([i \in 1 .. Len(dispatched) |-> dispatched[i].files])
               = all_files
        /\ \A i \in DOMAIN dispatched :
               /\ dispatched[i].idx = i - 1
               /\ dispatched[i].files # << >>
               /\ dispatched[i].total_size = SizesOf(dispatched[i].files)
               /\ SizesOf(AllButLast(dispatched[i].files)) < batch_threshold
               /\ i < Len(dispatched) =>
                      dispatched[i].total_size >= batch_threshold
        /\ all_files = << >> => dispatched = << >>
        /\ dispatched = Batches(all_files, files_with_size, threads)

\* Two batches: the first closed at its second file, the second the
\* remainder below the threshold.
C18_Witness ==
    /\ bpc = "done"
    /\ Len(dispatched) = 2
    /\ Len(dispatched[1].files) = 2
    /\ dispatched[2].total_size < batch_threshold

\* --------------------------------------------------------------- C19
ParallelZstd == format = "zstd" /\ ~Sequential

Trailer == [kind |-> "trailer", idx |-> -1, files |-> << >>, eof |-> TRUE]
Trailers == {i \in DOMAIN output : output[i].kind = "trailer"}

\* C19: parallel Zstandard assembly.  The frames written are the collected
\* batch frames in ascending index order, none of them holding an
\* end-of-archive marker; at most one trailer is written and nothing is
\* written after it; when Complete has been sent the output is those frames
\* followed by the trailer, and it has been synced; with one thread or more
\* the frames are those of all dispatched batches; an empty tree gives an
\* output that is the trailer alone.
C19_Assembly ==
    ParallelZstd =>
        /\ \A i \in DOMAIN output :
               \/ /\ i = Len(output)
                  /\ output[i] = Trailer
               \/ /\ output[i].kind = "frame"
                  /\ ~output[i].eof
                  /\ i <= Len(compressed_batches)
                  /\ output[i].idx = compressed_batches[i].idx
                  /\ \A j \in 1 .. (i - 1) : output[j].idx < output[i].idx
        /\ Pos("Complete") # {} =>
               /\ synced
               /\ Len(output) = Len(compressed_batches) + 1
               /\ output[Len(output)] = Trailer
               /\ all_files = << >> => output = << Trailer >>
               /\ threads >= 1 =>
                      [i \in 1 .. (Len(output) - 1) |-> output[i].files]
                          = [i \in DOMAIN dispatched |-> dispatched[i].files]
        /\ Success <=> Pos("Complete") # {}

\* Two batch frames and the trailer, Complete sent.
C19_Witness ==
    /\ ParallelZstd
    /\ Success
    /\ Len(output) = 3
    /\ synced

\* --------------------------------------------------------------- C20
\* C20 (as stated): every tar+zstd output, for every input and every thread
\* count, is N >= 1 batch frames followed by one separate terminator frame.
C20_FramesThenTerminator ==
    (format = "zstd" /\ Success) =>
        /\ Len(output) >= 2
        /\ output[Len(output)] = Trailer
        /\ \A i \in 1 .. (Len(output) - 1) : output[i].kind = "frame"

\* C20 (amended): the output of a successful parallel run (threads # 1) is
\* N >= 0 batch frames, none holding an end-of-archive marker, followed by
\* one separate terminator frame; N is the number of collected batches,
\* which with one thread or more is the number of dispatched batches: 0 for
\* an empty tree, at least 1 otherwise.  The output of a successful
\* sequential run (threads = 1) is a single frame that holds every file and
\* the end-of-archive marker, with no separate terminator frame.
C20_OutputShape ==
    (format = "zstd" /\ Success) =>
        IF Sequential
        THEN output = << [kind |-> "frame", idx |-> 0, files |-> all_files,
                          eof |-> TRUE] >>
        ELSE /\ Len(output) = Len(compressed_batches) + 1
             /\ output[Len(output)] = Trailer
             /\ \A i \in 1 .. (Len(output) - 1) :
                    output[i].kind = "frame" /\ ~output[i].eof
             /\ threads >= 1 =>
                    /\ Len(output) = Len(dispatched) + 1
                    /\ all_files = << >> <=> Len(output) = 1

\* An empty tree compressed with two threads: the terminator alone.
C20_Witness ==
    /\ format = "zstd"
    /\ threads = 2
    /\ all_files = << >>
    /\ Success
    /\ output = << Trailer >>

\* --------------------------------------------------------------- C21
\* C21: with a memory limit of 0 in the parallel Zstandard mode every memory
\* request is denied and every result unit is Disk: no result a worker
\* sends, the channel holds or the collector has stored carries a Memory
\* payload, whatever the file sizes (empty files included).
C21_LimitZeroAllDisk ==
    (ParallelZstd /\ memory_limit_mb = 0) =>
        /\ \A r \in Produced : r.loc = "Disk"
        /\ \A i \in UnitIds : replies[i].state = "full" => ~replies[i].ok
        /\ current_usage = 0
        /\ \A i \in DOMAIN output : output[i].kind = "frame" =>
               \E r \in Range(compressed_batches) :
                   r.idx = output[i].idx /\ r.loc = "Disk"

\* A batch of one empty file under limit 0: it was compressed into a
\* buffer, its request was denied, and its Disk result was written.
C21_Witness ==
    /\ ParallelZstd
    /\ memory_limit_mb = 0
    /\ Success
    /\ \E r \in Range(compressed_batches) :
           /\ r.loc = "Disk"
           /\ UnitOf(r.idx).total_size = 0
           /\ replies[r.idx] = Dropped
    /\ Len(output) >= 2

\* --------------------------------------------------------------- C22
\* Two files of 4 MiB each, Zstandard, two threads, a limit of 1 MiB.
SmallWorld ==
    /\ format = "zstd"
    /\ threads = 2
    /\ memory_limit_mb = SmallLimitMb
    /\ nfiles = 2

\* No frame is or was held in memory: no buffer waits for a reply, no
\* request was made, no result is Memory.
NoPayloadInRam ==
    /\ \A w \in WorkerIds : wpc[w] # "poll" /\ wres[w].loc # "Memory"
    /\ mem_q = << >>
    /\ \A i \in UnitIds : replies[i] = NoReply
    /\ current_usage = 0
    /\ \A r \in Produced : r.loc = "Disk"

\* C22 (as stated): the two files are split into one batch per file, of
\* 4 MiB each; each batch exceeds the limit and goes straight to disk; the
\* peak in-RAM payload is 0.
C22_OneBatchPerFile ==
    (SmallWorld /\ mpc \notin {"start", "scan", "mktemp", "spawn", "dispatch"}
                /\ temp_created) =>
        /\ Len(dispatched) = 2
        /\ \A i \in DOMAIN dispatched :
               /\ Len(dispatched[i].files) = 1
               /\ dispatched[i].total_size = 4 * MiB
        /\ NoPayloadInRam

\* C22 (amended): the threshold is the total, 8 MiB, so the two files form
\* one batch of 8 MiB; it exceeds the limit and goes straight to disk; the
\* peak in-RAM payload is 0, and a successful run writes both files.
C22_SmallWorld ==
    SmallWorld =>
        /\ dispatched # << >> =>
               dispatched = << [idx |-> 0, files |-> << 0, 1 >>,
                                total_size |-> 8 * MiB] >>
        /\ \A u \in Range(dispatched) :
               DirectToDisk(u.total_size, global_memory_limit_bytes)
        /\ NoPayloadInRam
        /\ Success => OutputFiles = << 0, 1 >>

\* The small world was archived: one frame from disk, then the trailer.
C22_Witness ==
    /\ SmallWorld
    /\ Success
    /\ Len(output) = 2
    /\ output[1].files = << 0, 1 >>
    /\ compressed_batches[1].loc = "Disk"

\* ---------------------------------------------------------------- C23
\* The directories the walk has seen, and those it went into or will.
DirsSeen == {e.zp : e \in {x \in tree : x.kind = "dir"}}
Recursed(d) == d \in reads \/ d \in Range(stack)
Listed(zp) == \E i \in 1 .. Len(all_files) : all_files[i].file_name = zp
ListedUnder(d) ==
    \E i \in 1 .. Len(all_files) :
        /\ Len(all_files[i].file_name) > Len(d)
        /\ IsPrefix(d, all_files[i].file_name)

\* The three cases in which a directory is left out.
PruneCase(d) ==
    LET name == Last(d)
        parent == d[Len(d) - 1]
    IN  \/ name = "DIM1" /\ ~include_end
        \/ name = "DIM-1" /\ ~include_nether
        \/ /\ name \in {"regions", "entities", "poi"}
           /\ parent = world_name
           /\ ~include_overworld

\* C23: with is_bukkit = false a directory below a root is left out of the
\* walk (never read, none of its files listed) exactly in the three cases;
\* with is_bukkit = true none is left out; a regular file of any name is
\* listed, and a root is never left out.
C23_PrunePredicate ==
    /\ \A d \in DirsSeen :
        /\ Len(d) > 1 =>
            /\ ~Recursed(d) <=> (~is_bukkit /\ PruneCase(d))
            /\ ~Recursed(d) => ~ListedUnder(d)
        /\ Len(d) = 1 => Recursed(d)
    /\ \A e \in tree : e.kind = "file" => Listed(e.zp)
    /\ spc = "done" => \A d \in DirsSeen : d \in reads \/ ~Recursed(d)

\* A finished walk that left out "regions" under a directory named
\* world_name two levels below the root.
C23_Witness ==
    /\ spc = "done"
    /\ ~is_bukkit
    /\ \E d \in DirsSeen : Len(d) = 3 /\ Last(d) = "regions" /\ ~Recursed(d)

\* ---------------------------------------------------------------- C24
\* The positions at which the result list names zp.
ListedAt(zp) == {i \in 1 .. Len(all_files) : all_files[i].file_name = zp}
\* The index of the root whose basename opens an archive name.
RootOf(zp) == CHOOSE r \in 1 .. Len(paths) : Last(paths[r]) = zp[1]
IsFileFound(e) == e.ev = "FileFound"
FileFounds == SelectSeq(events, IsFileFound)

\* C24: every regular file the walk reaches is in the result list exactly
\* once and nothing else is; its archive name is the root's basename
\* followed by the names of the entries down to it, and its source path is
\* that path under world_path; the files of an earlier root come before
\* those of a later root; the FileFound events are the source paths of the
\* list, one each and in its order; StartCompression carries the length of
\* the returned list.
C24_ScannerOutput ==
    /\ \A e \in tree : e.kind = "file" => Cardinality(ListedAt(e.zp)) = 1
    /\ \A i \in 1 .. Len(all_files) :
        /\ [zp |-> all_files[i].file_name, kind |-> "file"] \in tree
        /\ \E r \in 1 .. Len(paths) : Last(paths[r]) = all_files[i].file_name[1]
        /\ all_files[i].src_path = << "world_path" >> \o all_files[i].file_name
    /\ \A i, j \in 1 .. Len(all_files) :
        i < j => RootOf(all_files[i].file_name) <= RootOf(all_files[j].file_name)
    /\ Len(FileFounds) = Len(all_files)
    /\ \A i \in 1 .. Len(all_files) : FileFounds[i].f = all_files[i].src_path
    /\ \A k \in 1 .. Len(events) :
        events[k].ev = "StartCompression" =>
            /\ spc = "done"
            /\ k = Len(events)
            /\ events[k].f = Len(all_files)

\* A finished scan of two roots with a file below each.
C24_Witness ==
    /\ spc = "done"
    /\ Len(all_files) = 2
    /\ Len(all_files[1].file_name) = 2
    /\ Len(all_files[2].file_name) = 2
    /\ RootOf(all_files[1].file_name) < RootOf(all_files[2].file_name)

\* ---------------------------------------------------------------- C25
NoStartCompression == \A k \in 1 .. Len(events) : events[k].ev # "StartCompression"
NothingStarted ==
    /\ ~temp_created
    /\ ~dir_exists
    /\ scratch = {}
    /\ \A w \in WorkerIds : wpc[w] = "none"
    /\ apc = "none"
    /\ ~out_created
    /\ output = << >>

\* C25: a failure while scanning returns the error at once, with no
\* StartCompression sent, no scratch directory, no worker and no output
\* file; and nothing is started afterwards.
C25_ScanFailureAborts ==
    /\ [][(mpc = "scan" /\ ret' = "err") =>
            (mpc' = "returned" /\ NoStartCompression' /\ NothingStarted')]_vars
    /\ []((ret = "err" /\ NoStartCompression) =>
            (mpc = "returned" /\ NothingStarted))

\* A scan that failed after it had found a file.
C25_Witness ==
    /\ ret = "err"
    /\ mpc = "returned"
    /\ NoStartCompression
    /\ Len(all_files) >= 1

\* ---------------------------------------------------------------- C26
\* The places of the workers' events of one kind, and of those about file f.
WPos(kind) ==
    {p \in WorkerIds \X (1 .. (2 * MaxFiles + 1)) :
        /\ p[2] <= Len(wevents[p[1]])
        /\ wevents[p[1]][p[2]].ev = kind}
WPosOf(kind, f) == {p \in WPos(kind) : wevents[p[1]][p[2]].f = f}
ScannedFiles == Range(all_files)

\* C26 as stated: over a successful parallel Zstandard run the Compressing
\* events and the FileCompressed events are each as many as the scanned
\* files, and every Compressing event names a scanned file.
C26_OncePerFile ==
    (ParallelZstd /\ Success) =>
        /\ Cardinality(WPos("Compressing")) = Len(all_files)
        /\ Cardinality(WPos("FileCompressed")) = Len(all_files)
        /\ \A p \in WPos("Compressing") :
               wevents[p[1]][p[2]].f \in ScannedFiles

\* C26 as the code has it: over a successful parallel Zstandard run every
\* worker has sent Compressing(worker_id, "Idle") once, as its first event;
\* with threads >= 2 every scanned file has one Compressing and one
\* FileCompressed, from one worker and in that order, so that there are
\* threads more Compressing events than files; with threads = 0 there is
\* no event of either kind.
C26_OncePerFilePlusIdle ==
    (ParallelZstd /\ Success) =>
        /\ \A w \in 0 .. (threads - 1) :
            /\ Len(wevents[w]) >= 1
            /\ wevents[w][1] = [ev |-> "Compressing", w |-> w, f |-> Idle,
                                at |-> wevents[w][1].at]
            /\ Cardinality({p \in WPosOf("Compressing", Idle) : p[1] = w}) = 1
        /\ \A p \in WPos("Compressing") :
               wevents[p[1]][p[2]].f \in ScannedFiles \cup {Idle}
        /\ \A p \in WPos("FileCompressed") :
               wevents[p[1]][p[2]].f \in ScannedFiles
        /\ threads >= 2 =>
            /\ \A f \in ScannedFiles :
                \E w \in WorkerIds, i \in 1 .. (2 * MaxFiles) :
                    /\ WPosOf("Compressing", f) = {<< w, i >>}
                    /\ WPosOf("FileCompressed", f) = {<< w, i + 1 >>}
            /\ Cardinality(WPos("Compressing")) = Len(all_files) + threads
            /\ Cardinality(WPos("FileCompressed")) = Len(all_files)
        /\ threads = 0 =>
            WPos("Compressing") \cup WPos("FileCompressed") = {}

\* A successful run of two workers over two files in two batches.
C26_Witness ==
    /\ ParallelZstd
    /\ Success
    /\ threads = 2
    /\ Len(all_files) = 2
    /\ Len(dispatched) = 2
    /\ Cardinality(WPos("Compressing")) = 4
    /\ Cardinality(WPos("FileCompressed")) = 2

\* ---------------------------------------------------------------- C27
RECURSIVE SumFn(_, _)
SumFn(fn, S) ==
    IF S = {} THEN 0
    ELSE LET x == CHOOSE y \in S : TRUE IN fn[x] + SumFn(fn, S \ {x})

\* The event a worker sends about the unit it holds.
UnitEvent(kind, w) ==
    [ev |-> kind, w |-> w, f |-> wunit[w].files[1], at |-> Len(events)]

\* One step of ZIP worker w is one step of its loop body, in the body's
\* order.
ZipWorkerOrder(w) ==
    /\ wunit'[w] # wunit[w] => wpc[w] \in {"recv", "send"}
    /\ wevents'[w] # wevents[w] => wpc[w] \in {"announce", "compressed"}
    /\ wpc'[w] # wpc[w] =>
        \/ wpc[w] = "none" /\ wpc'[w] = "recv"
        \/ wpc[w] = "recv" /\ wpc'[w] = "exit"
        \/ /\ wpc[w] = "recv" /\ wpc'[w] = "announce"
           /\ wunit'[w] \in Range(dispatched)
        \/ /\ wpc[w] = "announce" /\ wpc'[w] = "compress"
           /\ wevents'[w] = Append(wevents[w], UnitEvent("Compressing", w))
        \/ /\ wpc[w] = "compress" /\ wpc'[w] = "compressed"
           /\ wres'[w] \in {ErrResult, DiskResult(wunit[w].idx, wunit[w].idx)}
        \/ /\ wpc[w] = "compressed" /\ wpc'[w] = "send"
           /\ wevents'[w] = Append(wevents[w], UnitEvent("FileCompressed", w))
           /\ wres'[w] = wres[w]
        \/ /\ wpc[w] = "send" /\ wpc'[w] = "recv"
           /\ result_q' = Append(result_q, wres[w])
        \/ /\ wpc[w] = "send" /\ wpc'[w] = "exit"
           /\ ~result_rx_alive

\* A ZIP worker's events are pairs: Compressing, then FileCompressed of the
\* same name; the pair is open exactly while the worker compresses.
ZipWorkerPairs(w) ==
    /\ \A i \in 1 .. Len(wevents[w]) :
        /\ wevents[w][i].ev = (IF i % 2 = 1 THEN "Compressing"
                               ELSE "FileCompressed")
        /\ wevents[w][i].w = w
        /\ i % 2 = 0 => wevents[w][i].f = wevents[w][i - 1].f
    /\ Len(wevents[w]) % 2 = 1 <=> wpc[w] \in {"compress", "compressed"}

\* C27: a ZIP worker goes through Compressing, the compression,
\* FileCompressed and the result send in that order for every unit it
\* receives, and receives the next unit only after the send; the
\* FileCompressed events are as many as the units received, less those
\* still being worked on.
C27_ZipWorkerProtocol ==
    /\ [][format = "zip" => \A w \in WorkerIds : ZipWorkerOrder(w)]_vars
    /\ [](format = "zip" =>
            /\ \A w \in WorkerIds : ZipWorkerPairs(w)
            /\ SumFn(received, UnitIds)
                 = Cardinality(WPos("FileCompressed"))
                   + Cardinality({w \in WorkerIds :
                         wpc[w] \in {"announce", "compress", "compressed"}})
            /\ SumFn(sent, UnitIds)
                 = Cardinality(WPos("FileCompressed"))
                   - Cardinality({w \in WorkerIds : wpc[w] = "send"}))

\* A worker that has sent FileCompressed for a unit whose compression
\* failed, and has received a second unit after sending the first result.
C27_Witness ==
    /\ format = "zip"
    /\ \E w \in WorkerIds :
        /\ wpc[w] = "send"
        /\ wres[w] = ErrResult
        /\ Len(wevents[w]) = 4
        /\ wevents[w][4].ev = "FileCompressed"

\* ---------------------------------------------------------------- C28
\* The workers holding the unit of an index.
Holders(idx) == {w \in WorkerIds : wunit[w].idx = idx}

\* Scratch files that a step created or wrote.
Written == scratch' \ scratch

\* C28: the scratch paths of different units differ, whichever workers
\* take them; a unit is received once, so one worker at most ever holds
\* it, and every step that creates or writes a scratch file is a step of
\* the worker holding the unit the file is named after; when the assembler
\* opens a scratch file, the unit's result has been sent, no worker holds
\* the unit and the file is complete.
C28_ScratchOwnership ==
    /\ [](\A i, j \in DOMAIN dispatched : \A v, w \in WorkerIds :
            i # j => ScratchName(dispatched[i].idx, v)
                       # ScratchName(dispatched[j].idx, w))
    /\ [](\A idx \in UnitIds :
            /\ received[idx] <= 1
            /\ Cardinality(Holders(idx)) <= received[idx] - sent[idx])
    /\ [][\A f \in Written :
            \E w \in Holders(f.name) :
                /\ f.name = ScratchName(wunit[w].idx, w)
                /\ wpc[w] \in {"compress", "compress_batch", "poll"}
                /\ wpc'[w] # wpc[w]]_vars
    /\ []((mpc = "copy" /\ UnitToWrite.loc = "Disk") =>
            /\ sent[UnitToWrite.idx] = 1
            /\ Holders(UnitToWrite.idx) = {}
            /\ WorkersStopped
            /\ \A f \in ScratchAt(UnitToWrite.name) : f.done)

\* The assembler about to open the second of two scratch files, which two
\* workers wrote.
C28_Witness ==
    /\ mpc = "copy"
    /\ cursor = 1
    /\ UnitToWrite.loc = "Disk"
    /\ ScratchAt(UnitToWrite.name) # {}
    /\ Cardinality(scratch) >= 2
    /\ \A w \in 0 .. 1 : \E i \in 1 .. Len(wevents[w]) :
           wevents[w][i].ev = "FileCompressed"

\* ---------------------------------------------------------------- C29
\* C29: /ping gets 200 "Pong!"; "/" followed by host_path gets the archive
\* response (200, the Content-Type of the format, attachment disposition,
\* Content-Length); every other path gets 404 "Not Found".
IsDownloadPath(path) == path = Slash \o host_path
IsArchive(r, len) ==
    /\ r.status = 200
    /\ r.content_type = << MimeType(serve_format) >>
    /\ r.disposition = << "attachment", ArchiveFileName(serve_format) >>
    /\ r.content_length = << len >>

C29_Routing ==
    \A i \in 1 .. Len(served) :
        LET q == served[i] IN
        /\ q.path = Slash \o Ping => q.response = PlainResponse(200, "Pong!")
        /\ IsDownloadPath(q.path) => IsArchive(q.response, q.len)
        /\ (q.path # Slash \o Ping /\ ~IsDownloadPath(q.path)) =>
               q.response = PlainResponse(404, "Not Found")

\* A request of the download path when host_path is "ping", answered by
\* the liveness route.
C29_Witness ==
    /\ host_path = Ping
    /\ \E i \in 1 .. Len(served) :
        /\ served[i].path = Slash \o Ping
        /\ served[i].response = PlainResponse(200, "Pong!")

\* ---------------------------------------------------------------- C30
\* The count a thread argument stands for: 0 is the number of CPUs.
CountOf(str) == IF ParseUsize(str) = 0 THEN ncpus ELSE ParseUsize(str)

\* C30: when the command line was accepted, a given --threads decides both
\* counts whatever --compression-threads and --server-threads say, and the
\* worker count handed to the pipeline is at least 1.
C30_ThreadsOverrides ==
    cli_out.status = "ok" =>
        /\ (arg_threads # None /\ cli_out.archive_threads # -1) =>
               cli_out.archive_threads = CountOf(arg_threads)
        /\ (arg_threads # None /\ cli_out.server_threads # -1) =>
               cli_out.server_threads = CountOf(arg_threads)
        /\ cli_out.archive_threads # -1 => cli_out.archive_threads >= 1

\* `compress --threads 1 --compression-threads 2`: two workers.
C30_Witness ==
    /\ subcommand = "compress"
    /\ arg_threads = "1"
    /\ arg_compression_threads = "2"
    /\ cli_out.status = "ok"
    /\ cli_out.archive_threads = 2

\* The part of C30 that holds: an accepted command line hands on counts of
\* at least 1, and the specific argument, when given, decides its count.
C30_AtLeastOne ==
    cli_out.status = "ok" =>
        /\ cli_out.archive_threads # -1 =>
            /\ cli_out.archive_threads >= 1
            /\ arg_compression_threads # None =>
                   cli_out.archive_threads = CountOf(arg_compression_threads)
        /\ cli_out.server_threads # -1 =>
            /\ cli_out.server_threads >= 1
            /\ arg_server_threads # None =>
                   cli_out.server_threads = CountOf(arg_server_threads)

\* --------------------------------------------------------------- C31
\* Frames held in memory: the buffers of workers between RequestAllocation
\* and the poll, and the Memory results produced and not yet written.
PolledBuffers == {wres[w] : w \in {v \in WorkerIds : wpc[v] = "poll"}}
Retained == PolledBuffers \cup {r \in Unwritten : r.ok /\ r.loc = "Memory"}

\* C31: the accountant's counter is at most the sum of the byte lengths of
\* the payloads retained in memory; it never counts bytes of a batch that
\* was spilled to disk.
C31_CounterBoundedByRetained ==
    format = "zstd" => current_usage <= SumSizes(Retained)

\* A worker polled before the accountant answered and spilled its frame;
\* the accountant then approved the request: the counter holds the frame's
\* 48 MiB while no frame is held in memory.
C31_Witness ==
    /\ format = "zstd"
    /\ current_usage = 48 * MiB
    /\ Retained = {}
    /\ cursor = 0
    /\ \E r \in Unwritten : r.ok /\ r.loc = "Disk" /\ replies[r.idx] = Dropped

\* --------------------------------------------------------------- C32
\* The single poll of worker w: with no reply in the channel, or a denial,
\* the buffer is written to the scratch file of the batch and the result is
\* Disk (the error of fs::write when the write fails); the receiver is
\* dropped in the same step.
C32_PollStep(w) ==
    (wpc[w] = "poll" /\ wpc'[w] # "poll") =>
        LET idx == wunit[w].idx
            reply == replies[idx]
        IN  /\ wpc'[w] = "send"
            /\ replies'[idx] = Dropped
            /\ (reply.state # "full" \/ ~reply.ok) =>
                   IF dir_exists
                   THEN /\ wres'[w] = DiskResult(idx, idx)
                        /\ [name |-> idx, files |-> wres[w].data,
                            done |-> TRUE] \in scratch'
                   ELSE wres'[w] = ErrResult

\* After the poll nothing changes the worker's result or reopens the reply
\* channel, whatever the accountant answers later.
C32_NoLateReply ==
    /\ \A w \in WorkerIds :
           (wpc[w] = "send" /\ wpc'[w] = "send") => wres'[w] = wres[w]
    /\ \A i \in UnitIds : replies[i] = Dropped => replies'[i] = Dropped

SeqEntered == Sequential /\ Pos("StartWriting") # {}
ParEntered == format = "zstd" /\ ~Sequential /\ temp_created

\* C33 (as stated): a sequential Zstandard run sends no StartCompression,
\* a parallel one sends it.
C33_SequentialSilent ==
    /\ Sequential => Pos("StartCompression") = {}
    /\ ParEntered => Pos("StartCompression") # {}

\* C33 (amended): every Zstandard run, sequential or parallel, sends
\* StartCompression(total_files) exactly once, at the end of the scan and
\* before the mode is entered; the sequential function itself sends none
\* and starts with StartWriting, which follows it directly.
C33_BothModesAnnounce ==
    /\ (SeqEntered \/ ParEntered) =>
          /\ Cardinality(Pos("StartCompression")) = 1
          /\ \A p \in Pos("StartCompression") :
                 /\ events[p].f = Len(all_files)
                 /\ p = Len(all_files) + 2
    /\ SeqEntered =>
          \A p \in Pos("StartCompression") :
              events[p + 1].ev = "StartWriting"
    /\ format = "zstd" => Cardinality(Pos("StartCompression")) <= 1

\* A sequential run has completed with two files, after StartCompression
\* and StartWriting.
C33_Witness ==
    /\ Sequential
    /\ Success
    /\ Len(all_files) = 2
    /\ events[4] = Ev("StartCompression", -1, 2)
    /\ events[5] = Ev("StartWriting", -1, 2)

\* --------------------------------------------------------------- C34
\* A step that takes a request off the accountant's queue.
RequestTaken == mem_q # << >> /\ mem_q' = Tail(mem_q)

\* C34: the accountant leaves its first loop only when the request channel
\* is empty and every sender is gone, so the body of the second loop never
\* runs: after the first loop no request arrives or is taken, no reply is
\* sent and the counter is not touched; every request is answered by the
\* first loop, against the one counter that is never reset.
C34_SecondLoopDead ==
    /\ [](apc \in {"loop2", "done"} => mem_q = << >> /\ MemDisconnected)
    /\ [][/\ apc = "loop2" =>
               /\ apc' \in {"loop2", "done"}
               /\ mem_q' = mem_q
               /\ replies' = replies
               /\ current_usage' = current_usage
          /\ RequestTaken => apc = "loop1" /\ apc' = "loop1"
          /\ current_usage' # current_usage => apc = "loop1"]_vars

\* The accountant has left its first loop after approving a request of
\* 48 MiB, which the second loop's fresh counter would forget.
C34_Witness ==
    /\ apc = "loop2"
    /\ current_usage = 48 * MiB
    /\ \E r \in Produced : r.loc = "Memory"

\* --------------------------------------------------------------- C35
\* C35: the accountant's counter is 0 at the start and until the first
\* approval, no step decreases it, and in every reachable state it is at
\* most L = memory_limit_mb * 1024 * 1024.
C35_CounterMonotoneBounded ==
    /\ current_usage = 0
    /\ [](/\ 0 <= current_usage
          /\ current_usage <= global_memory_limit_bytes
          /\ apc = "none" => current_usage = 0)
    /\ [][current_usage' >= current_usage]_vars

\* Two requests of 48 MiB were handled under a limit of 64 MiB: the
\* counter stands at 48 MiB after one approval and one denial.
C35_Witness ==
    /\ memory_limit_mb = 64
    /\ current_usage = 48 * MiB
    /\ mem_q = << >>
    /\ \E i, j \in UnitIds :
           /\ i # j
           /\ replies[i] = Dropped
           /\ replies[j] = Dropped
           /\ \A k \in {i, j} :
                  UnitOf(k).total_size <= global_memory_limit_bytes
    /\ \E r \in Produced : r.loc = "Memory" /\ r.size = 48 * MiB
    /\ Cardinality({r \in Produced : r.loc = "Disk"}) >= 1
    /\ apc = "done"

\* --------------------------------------------------------------- C36
Returned == mpc = "returned"
ThreadsStopped == WorkersStopped /\ apc \in {"none", "done"}

\* C36: with threads >= 1 and every compression call returning, the
\* pipeline function eventually returns; when it has returned Ok every
\* worker and the accountant have terminated, and after any return they
\* eventually do; the accountant can always answer the request at the head
\* of its queue, whether or not the requester still holds its reply
\* receiver; handle_progress returns once Complete was sent or every
\* progress sender is gone.
C36_Termination ==
    /\ (threads >= 1) => <>Returned
    /\ []((Returned /\ Success) => ThreadsStopped)
    /\ Returned ~> ThreadsStopped
    /\ []((apc = "loop1" /\ mem_q # << >>) => ENABLED AcctHandle)
    /\ (CompleteSent \/ ProgressDisconnected) ~> ~progress_rx_alive
    /\ (threads >= 1) => <>(~progress_rx_alive)

\* A parallel Zstandard run has returned Ok: both workers and the
\* accountant have terminated, the accountant having answered a request
\* whose reply receiver was already dropped, and the renderer has returned.
C36_Witness ==
    /\ format = "zstd"
    /\ threads = 2
    /\ Returned
    /\ Success
    /\ ThreadsStopped
    /\ apc = "done"
    /\ \A w \in WorkerIds : w < threads => wpc[w] = "exit"
    /\ current_usage = 48 * MiB
    /\ \A r \in Range(compressed_batches) : r.loc = "Disk"
    /\ ~progress_rx_alive
    /\ ~send_failed

\* --------------------------------------------------------------- C37
\* The frame of a batch as the output holds it: a function of the batch
\* alone.
FrameOf(idx) ==
    [kind |-> "frame", idx |-> idx, files |-> UnitOf(idx).files,
     eof |-> FALSE]

\* The frames the assembler has written so far, by the collected indexes.
FramesWritten ==
    [i \in 1 .. Min(cursor, Len(compressed_batches)) |->
        FrameOf(compressed_batches[i].idx)]

\* C37: in parallel Zstandard mode the frames of the output are determined
\* by the batches and the order of their indexes alone: a Memory payload
\* and a finished scratch file of a batch hold the same frame, and the
\* assembler writes that frame whichever of the two the result carries, so
\* runs that differ only in the placement of their batches write the same
\* sequence of frames.
C37_PlacementIndependent ==
    (format = "zstd" /\ ~Sequential) =>
        /\ \A r \in Produced :
               /\ r.loc = "Memory" => r.data = UnitOf(r.idx).files
               /\ r.loc = "Disk" =>
                      \A f \in ScratchAt(r.name) :
                          f.done /\ f.files = UnitOf(r.idx).files
        /\ OutputUnits = FramesWritten
        /\ Success =>
               /\ cursor = Len(compressed_batches)
               /\ output = FramesWritten \o << Trailer >>
               /\ threads >= 1 =>
                      FramesWritten
                          = [i \in DOMAIN dispatched |-> FrameOf(i - 1)]

\* A successful run wrote two frames, the first taken from a scratch file
\* and the second from memory, both of batches within the limit.
C37_Witness ==
    /\ format = "zstd"
    /\ threads = 2
    /\ Success
    /\ Len(compressed_batches) = 2
    /\ compressed_batches[1].loc = "Disk"
    /\ compressed_batches[2].loc = "Memory"
    /\ UnitOf(0).total_size <= global_memory_limit_bytes
    /\ Len(OutputUnits) = 2

\* --------------------------------------------------------------- C38
\* C38: for every thread count, 0 included, and every non-empty file list,
\* a parallel run (ZIP or Zstandard) that returns Ok has written every
\* dispatched unit; a run that collected fewer results than it dispatched
\* returns an error.
C38_NoSilentOmission ==
    (Success /\ ~Sequential /\ all_files # << >>) =>
        /\ dispatched # << >>
        /\ Len(OutputUnits) = Len(dispatched)
        /\ \A i \in DOMAIN OutputUnits :
               /\ OutputUnits[i].idx = i - 1
               /\ OutputUnits[i].files = UnitOf(i - 1).files

\* A Zstandard run with threads = 0 has returned Ok: two files were
\* scanned and dispatched, nothing was received or collected, and the
\* output holds the trailer frame alone.
C38_Witness ==
    /\ format = "zstd"
    /\ threads = 0
    /\ Success
    /\ Len(all_files) = 2
    /\ dispatched # << >>
    /\ work_q = dispatched
    /\ compressed_batches = << >>
    /\ output = << Trailer >>
    /\ Pos("Complete") # {}

====
